---- MODULE Spec2Model ----
(***************************************************************************)
(* DynamoDB Streams -> Cloud Spanner change-data-capture pipeline of       *)
(* HarbourBridge (package dynamodb, streaming part): shard discovery       *)
(* (ProcessStream), shard workers (ProcessShard), record conversion and    *)
(* writing (ProcessRecord, writeRecord, writeMutation, removeMutation),    *)
(* the cutover advisor (cutoverHelper) and the signal handler (catchCtrlC).*)
(* The DynamoDB Streams service and the Spanner writer are the environment.*)
(***************************************************************************)
EXTENDS Integers, Sequences, FiniteSets, TLC

\* ------------------------------------------------------------------ bounds
\* Number of shards the stream ever lists.
NumShards == 2
\* Number of stream records each shard holds.
MaxRecs == 2
\* Number of one-minute ticks of the cutover advisor that are followed.
MaxTicks == 10
\* Number of columns of the source table of a REMOVE record.
NumCols == 3
NumKeys == 2
NumVals == 2
MaxReplays == 2

\* ------------------------------------------------------- program constants
\* writeMutation: retryLimit := 1000
retryLimit == 1000
\* ProcessShard: retryCount < 5
trimRetryLimit == 5

\* A nil *string (shard id, sequence number).
Nil == 0

ShardIds == 1..NumShards
\* A shard id that DescribeStream no longer lists (a parent aged out of the stream).
ExpiredShard == NumShards + 1
AllShardIds == 1..ExpiredShard
SeqNums == 1..MaxRecs
\* The goroutines ProcessStream may start: one per shard entry it is handed.
MaxWorkers == NumShards
Workers == 1..MaxWorkers

EventKinds == {"INSERT", "MODIFY", "REMOVE"}
AnomalyKinds == {"fetchShards", "getShardIterator", "fetchRecords", "colsAndSchemas", "writer"}

\* The event name of record q of shard s (the content of the stream).
EventName(s, q) ==
  LET r == (s + q) % 3
  IN IF r = 0 THEN "INSERT" ELSE IF r = 1 THEN "MODIFY" ELSE "REMOVE"

\* ------------------------------------------------------------------- errors
\* An error is the set of the substrings of interest its message contains;
\* the empty set is the nil error.
NilErr == {}
ParentMissingErr == {"NotFound", "Parent row", "is missing"}
OtherWriteErrs == {{"AlreadyExists"}, {"NotFound"}}

VARIABLES
  \* StreamingInfo
  ShardProcessed,      \* shard id -> "absent" | "false" | "true"
  UserExit,
  Records, BadRecords, DroppedRecords,   \* event kind -> count (one source table)
  SampleBadRecords,    \* the records CollectBadRecord was handed, as a count
  recordsProcessed,
  Unexpecteds,         \* anomaly kind -> count
  writerSet,           \* streamInfo.write != nil
  schemaOk,            \* getColsAndSchemas returns no error (conv is read-only)
  \* ProcessStream
  dpc, lastProcessedShardId, passAfterUserExit, nSpawned,
  \* ProcessShard goroutines
  workers,
  \* DynamoDB Streams
  trimPoint,           \* shard -> number of records aged out
  closed,              \* shard -> closed for writes
  eventNames,          \* shard -> sequence number -> record.EventName
  \* history
  drainPasses, returned, spawned, falseSets, trueSets,
  breakPass,           \* the pass ProcessStream broke on: what it listed and spawned
  \* cutoverHelper
  cpc, timer, firstFiveMin, lastFiveMin, tillLastMin, arr,
  optimumCondition,    \* the flag of the last updateProgress call
  deltas,              \* history: the one-minute deltas read so far
  \* removeMutation on one REMOVE record
  rmColNames,          \* srcSchema.ColNames
  rmPrimaryKeys,       \* srcSchema.PrimaryKeys, in declared order
  rmImage,             \* the columns present in record.Dynamodb.Keys
  rmResult,            \* the mutation built, or a panic
  \* writeRecord and writeMutation on one converted record
  wpc,                 \* "idle" | "record" | "loop" | "returned" | "done"
  wrEventName,         \* eventName
  wrFails, wrFinal,    \* the writer: wrFails parent-row-missing errors, then wrFinal
  wrRetryLimit,        \* retryLimit of writeMutation
  wrErr,               \* err of writeMutation
  wrCalls,             \* history: invocations of streamInfo.write
  wrApplied,           \* history: invocations that returned nil
  \* NewDynamoDBStream
  nspc,                \* "idle" | "describe" | "update" | "done"
  describeErr,         \* DescribeTable fails
  streamViewType,      \* StreamSpecification.StreamViewType, "none" for a nil specification
  latestStreamArn,     \* Table.LatestStreamArn of the table as found
  updateErr,           \* UpdateTable fails
  newStreamArn,        \* TableDescription.LatestStreamArn after UpdateTable
  nsResult,            \* what NewDynamoDBStream returns: [arn, err]
  updateCalls,         \* history: calls of UpdateTable
  updateViewType,      \* history: the view type handed to UpdateTable
  \* one record applied to a Spanner table, then replayed
  spRows,              \* the Spanner table: primary key -> row, or Absent
  rpRecord,            \* the record: [eventName, key, val]
  rpApplied,           \* history: times the record went through ProcessRecord
  rpOnce,              \* history: the table and DroppedRecords after the first time
  \* ProcessRecord statement by statement, on two goroutines
  prpc,                \* per goroutine: the statement it is at
  prKind,              \* per goroutine: the event name of its record
  prTaken,             \* per goroutine: records it has taken so far
  prBad,               \* history: times its record was counted as bad
  prDropped            \* history: times its record was counted as dropped

vars == <<ShardProcessed, UserExit, Records, BadRecords, DroppedRecords,
          SampleBadRecords,
          recordsProcessed, Unexpecteds, writerSet, schemaOk,
          dpc, lastProcessedShardId, passAfterUserExit, nSpawned, workers,
          trimPoint, closed, eventNames,
          drainPasses, returned, spawned, falseSets, trueSets, breakPass,
          cpc, timer, firstFiveMin, lastFiveMin, tillLastMin, arr,
          optimumCondition, deltas,
          rmColNames, rmPrimaryKeys, rmImage, rmResult,
          wpc, wrEventName, wrFails, wrFinal, wrRetryLimit, wrErr, wrCalls,
          wrApplied,
          nspc, describeErr, streamViewType, latestStreamArn, updateErr,
          newStreamArn, nsResult, updateCalls, updateViewType,
          spRows, rpRecord, rpApplied, rpOnce,
          prpc, prKind, prTaken, prBad, prDropped>>

statsVars == <<Records, BadRecords, DroppedRecords, recordsProcessed,
               SampleBadRecords>>
discoveryVars == <<dpc, lastProcessedShardId, passAfterUserExit, nSpawned>>
streamVars == <<trimPoint, closed>>
histVars == <<drainPasses, returned, spawned, breakPass>>
statusHist == <<falseSets, trueSets>>
cutoverVars == <<cpc, timer, firstFiveMin, lastFiveMin, tillLastMin, arr,
                 optimumCondition, deltas>>
removeVars == <<rmColNames, rmPrimaryKeys, rmImage, rmResult>>
writeVars == <<wpc, wrEventName, wrFails, wrFinal, wrRetryLimit, wrErr,
               wrCalls, wrApplied>>
newStreamVars == <<nspc, describeErr, streamViewType, latestStreamArn,
                   updateErr, newStreamArn, nsResult, updateCalls,
                   updateViewType>>
replayVars == <<spRows, rpRecord, rpApplied, rpOnce>>
countVars == <<prpc, prKind, prTaken, prBad, prDropped>>
\* What the streaming goroutines never touch.
otherVars == <<cutoverVars, removeVars, writeVars, newStreamVars, eventNames,
   replayVars, countVars>>
\* What the cutover advisor and removeMutation never touch.
pipelineVars == <<ShardProcessed, Records, BadRecords, DroppedRecords,
                  SampleBadRecords,
                  Unexpecteds, writerSet, schemaOk, discoveryVars, workers,
                  streamVars, histVars, statusHist, writeVars, newStreamVars,
                  eventNames,
   replayVars, countVars>>

\* --------------------------------------------------------- StreamingInfo
\* streamInfo.ShardProcessed[id] = done
SetShardStatus(sp, id, done) ==
  [sp EXCEPT ![id] = IF done THEN "true" ELSE "false"]

\* done := streamInfo.ShardProcessed[*parentShard]; a missing key reads false.
ShardDoneMissingIsTrue(sp, id) == sp[id] # "false"
ShardDone(sp, id) == sp[id] = "true"

\* streamInfo.Unexpected(msg)
Unexpected(u, kind) == [u EXCEPT ![kind] = @ + 1]

StatsAdd(c, kind) == [c EXCEPT ![kind] = @ + 1]

\* streamInfo.CollectBadRecord(...): one more record handed to the sample.
CollectBadRecord(n) == n + 1

\* ProcessStream has not broken after a pass.
NoPass == [tip |-> FALSE, shards |-> 0, spawned |-> 0]

IdleWorker ==
  [shard |-> Nil, parent |-> Nil, pc |-> "idle",
   lastEvaluatedSequenceNumber |-> Nil, passAfterUserExit |-> FALSE,
   retryCount |-> 0, shardIterator |-> Nil, records |-> <<>>,
   nextNil |-> FALSE,
   fetched |-> <<>>, applied |-> <<>>, writes |-> <<>>,
   trimCalls |-> 0, drainFetches |-> 0, exit |-> "none",
   iterType |-> "none", trimmedBefore |-> FALSE, recoveries |-> 0,
   batches |-> 0]

\* go ProcessShard(..., shard, ...)
NewWorker(shardId, parentShardId) ==
  [IdleWorker EXCEPT !.shard = shardId, !.parent = parentShardId, !.pc = "gate"]

\* The state after the StreamingInfo is built and ProcessStream has started.
InitPipeline ==
  /\ ShardProcessed = [s \in AllShardIds |-> "absent"]
  /\ UserExit = FALSE
  /\ Records = [k \in EventKinds |-> 0]
  /\ BadRecords = [k \in EventKinds |-> 0]
  /\ SampleBadRecords = 0
  /\ DroppedRecords = [k \in EventKinds |-> 0]
  /\ recordsProcessed = 0
  /\ Unexpecteds = [a \in AnomalyKinds |-> 0]
  /\ dpc = "loop"
  /\ lastProcessedShardId = Nil
  /\ passAfterUserExit = FALSE
  /\ nSpawned = 0
  /\ workers = [w \in Workers |-> IdleWorker]
  /\ trimPoint = [s \in ShardIds |-> 0]
  /\ closed = [s \in ShardIds |-> FALSE]
  /\ drainPasses = 0
  /\ breakPass = NoPass
  /\ returned = [s \in ShardIds |-> 0]
  /\ spawned = [s \in ShardIds |-> 0]
  /\ falseSets = [s \in ShardIds |-> 0]
  /\ trueSets = [s \in ShardIds |-> 0]

\* The pipeline on a stream of the records EventName gives.
InitStream ==
  /\ InitPipeline
  /\ eventNames = [s \in ShardIds |-> [q \in SeqNums |-> EventName(s, q)]]

\* cutoverHelper before its loop: timer, firstFiveMin, lastFiveMin,
\* tillLastMin := 0; arr := [5]int64{0, 0, 0, 0, 0}; the first
\* updateProgress(false, true, ...) has rendered false.
InitCutover ==
  /\ cpc = "run"
  /\ timer = 0
  /\ firstFiveMin = 0
  /\ lastFiveMin = 0
  /\ tillLastMin = 0
  /\ arr = [i \in 0..4 |-> 0]
  /\ optimumCondition = FALSE
  /\ deltas = <<>>

NoMutation == [kind |-> "none", key |-> <<>>]

\* No REMOVE record is being converted.
RemoveIdle ==
  /\ rmColNames = <<>>
  /\ rmPrimaryKeys = <<>>
  /\ rmImage = {}
  /\ rmResult = NoMutation

\* The stream arn a call returns with an error.
NoArn == ""
\* No error yet.
NoResult == [arn |-> NoArn, err |-> "none"]

\* NewDynamoDBStream has returned the arn of the stream that is processed.
NewStreamIdle ==
  /\ nspc = "idle"
  /\ describeErr = FALSE
  /\ streamViewType = "NEW_AND_OLD_IMAGES"
  /\ latestStreamArn = "arn:1"
  /\ updateErr = FALSE
  /\ newStreamArn = "arn:1"
  /\ nsResult = [arn |-> "arn:1", err |-> "none"]
  /\ updateCalls = 0
  /\ updateViewType = "none"

\* A primary key without a row.
Absent == Nil
RowKeys == 1..NumKeys
RowVals == 1..NumVals
NoSnapshot == [rows |-> <<>>, dropped |-> 0]

\* No record is replayed.
ReplayIdle ==
  /\ spRows = [k \in RowKeys |-> Absent]
  /\ rpRecord = [eventName |-> "INSERT", key |-> 1, val |-> 1]
  /\ rpApplied = 0
  /\ rpOnce = NoSnapshot

\* No record is followed through writeRecord step by step.
WriteIdle ==
  /\ wpc = "idle"
  /\ wrEventName = "INSERT"
  /\ wrFails = 0
  /\ wrFinal = NilErr
  /\ wrRetryLimit = 0
  /\ wrErr = NilErr
  /\ wrCalls = 0
  /\ wrApplied = 0

\* No goroutine is followed through ProcessRecord statement by statement.
CountIdle ==
  /\ prpc = [g \in Workers |-> "idle"]
  /\ prKind = [g \in Workers |-> "INSERT"]
  /\ prTaken = [g \in Workers |-> 0]
  /\ prBad = [g \in Workers |-> 0]
  /\ prDropped = [g \in Workers |-> 0]

\* setWriter has run and the schemas of the table resolve.
Init ==
  /\ InitStream
  /\ writerSet = TRUE
  /\ schemaOk = TRUE
  /\ InitCutover
  /\ RemoveIdle
  /\ WriteIdle
  /\ NewStreamIdle
  /\ ReplayIdle
  /\ CountIdle

\* The writer may be unset (dry run) and the schemas may not resolve.
InitShard ==
  /\ InitStream
  /\ writerSet \in BOOLEAN
  /\ schemaOk \in BOOLEAN
  /\ InitCutover
  /\ RemoveIdle
  /\ WriteIdle
  /\ NewStreamIdle
  /\ ReplayIdle
  /\ CountIdle

\* ------------------------------------------------------------ catchCtrlC
\* if streamInfo.UserExit: the flag is written by the signal goroutine and
\* read by the loops without synchronisation; a read returns the value
\* written or the one it had before.
UserExitRead == {FALSE, UserExit}

\* <-c; streamInfo.UserExit = true
catchCtrlC ==
  /\ ~UserExit
  /\ UserExit' = TRUE
  /\ UNCHANGED otherVars
  /\ UNCHANGED <<ShardProcessed, statsVars, Unexpecteds, writerSet, schemaOk,
                 discoveryVars, workers, streamVars, histVars, statusHist>>

\* --------------------------------------------------------- ProcessStream
\* DescribeStream(ExclusiveStartShardId = start): the next k shards the
\* stream lists after start.
DescribeStream(start, k) == [i \in 1..k |-> start + i]

\* The parent ids a listed shard may carry: none, a shard listed before it,
\* or a shard that has aged out of the stream.
ParentChoices(s) == {Nil, ExpiredShard} \cup {p \in ShardIds : p < s}

Count(seq, x) == Cardinality({i \in 1..Len(seq) : seq[i] = x})

\* for _, shard := range result.Shards { ...; go ProcessShard(...) }
DispatchAllButRepeats(shards) ==
  SelectSeq(shards, LAMBDA s : spawned[s] = 0)
Dispatch(shards) == shards

\* lastProcessedShardId = shard.ShardId, for every shard of the result
LastShardIdStale(last, shards) == last
LastShardId(last, shards) ==
  IF Len(shards) = 0 THEN last ELSE shards[Len(shards)]

\* if result.LastEvaluatedShardId == nil && passAfterUserExit { break }
BreakAfterPassOnExit(lastEvaluatedNil, pass) == pass
BreakAfterPass(lastEvaluatedNil, pass) == lastEvaluatedNil /\ pass

\* One iteration of the loop of ProcessStream on a successful fetchShards.
ProcessStreamPass(shards, parents, lastEvaluatedNil) ==
  LET toSpawn == Dispatch(shards)
      n == Len(toSpawn)
  IN
  /\ dpc = "loop"
  /\ nSpawned + Len(shards) <= MaxWorkers
  /\ workers' = [w \in Workers |->
                   IF w > nSpawned /\ w <= nSpawned + n
                   THEN NewWorker(toSpawn[w - nSpawned], parents[toSpawn[w - nSpawned]])
                   ELSE workers[w]]
  /\ nSpawned' = nSpawned + n
  /\ lastProcessedShardId' = LastShardId(lastProcessedShardId, shards)
  /\ returned' = [s \in ShardIds |-> returned[s] + Count(shards, s)]
  /\ spawned' = [s \in ShardIds |-> spawned[s] + Count(toSpawn, s)]
  /\ drainPasses' = IF passAfterUserExit THEN drainPasses + 1 ELSE drainPasses
  /\ IF BreakAfterPass(lastEvaluatedNil, passAfterUserExit)
     THEN /\ dpc' = "wait"
          /\ breakPass' = [tip |-> lastEvaluatedNil, shards |-> Len(shards),
                           spawned |-> n]
          /\ UNCHANGED passAfterUserExit
     ELSE /\ dpc' = dpc
          /\ UNCHANGED breakPass
          /\ \E seen \in UserExitRead :
               passAfterUserExit' = (passAfterUserExit \/ seen)
  /\ UNCHANGED otherVars
  /\ UNCHANGED <<ShardProcessed, UserExit, statsVars, Unexpecteds, writerSet,
                 schemaOk, streamVars, statusHist>>

\* fetchShards succeeds; the service honours ExclusiveStartShardId.
ProcessStreamFetch(listed) ==
  \E k \in 0..listed, more \in BOOLEAN :
    /\ lastProcessedShardId + k <= listed
    /\ more => (k >= 1 /\ lastProcessedShardId + k < listed)
    /\ \E parents \in [ShardIds -> 0..ExpiredShard] :
         /\ \A s \in ShardIds :
              IF s > lastProcessedShardId /\ s <= lastProcessedShardId + k
              THEN parents[s] \in ParentChoices(s)
              ELSE parents[s] = Nil
         /\ ProcessStreamPass(DescribeStream(lastProcessedShardId, k), parents, ~more)

\* Where ProcessStream goes on a fetchShards error: break, to wgShard.Wait().
AfterFetchErrorRetry == "loop"
AfterFetchError == "wait"

\* fetchShards fails: Unexpected(...); break
ProcessStreamFetchError ==
  /\ dpc = "loop"
  /\ Unexpecteds' = Unexpected(Unexpecteds, "fetchShards")
  /\ dpc' = AfterFetchError
  /\ UNCHANGED otherVars
  /\ UNCHANGED <<ShardProcessed, UserExit, statsVars, writerSet, schemaOk,
                 lastProcessedShardId, passAfterUserExit, nSpawned, workers,
                 streamVars, histVars, statusHist>>

\* wgShard.Wait() returns: every wgShard.Add(1) has met its wgShard.Done().
WaitReturnsAtOnce(ws) == TRUE
WaitReturns(ws) == \A w \in Workers : ws[w].pc \in {"idle", "done"}

\* wgShard.Wait(); deferred wgStream.Done()
ProcessStreamWait ==
  /\ dpc = "wait"
  /\ WaitReturns(workers)
  /\ dpc' = "done"
  /\ UNCHANGED otherVars
  /\ UNCHANGED <<ShardProcessed, UserExit, statsVars, Unexpecteds, writerSet,
                 schemaOk, lastProcessedShardId, passAfterUserExit, nSpawned,
                 workers, streamVars, histVars, statusHist>>

\* ------------------------------------------------------ DynamoDB Streams
\* A record of the shard ages past the retention window.
Expire(s) ==
  /\ trimPoint[s] < MaxRecs
  /\ trimPoint' = [trimPoint EXCEPT ![s] = @ + 1]
  /\ UNCHANGED otherVars
  /\ UNCHANGED <<ShardProcessed, UserExit, statsVars, Unexpecteds, writerSet,
                 schemaOk, discoveryVars, workers, closed, histVars, statusHist>>

\* The shard is closed for writes (it has split).
CloseShard(s) ==
  /\ ~closed[s]
  /\ closed' = [closed EXCEPT ![s] = TRUE]
  /\ UNCHANGED otherVars
  /\ UNCHANGED <<ShardProcessed, UserExit, statsVars, Unexpecteds, writerSet,
                 schemaOk, discoveryVars, workers, trimPoint, histVars, statusHist>>

\* ---------------------------------------------------------- ProcessShard
\* waitForParentShard: returns at once for a nil parent, else polls the
\* parent's entry under the lock until it reads true (a poll that reads
\* false sleeps and changes nothing).
waitForParentShard(w) ==
  LET me == workers[w] IN
  /\ me.pc = "gate"
  /\ me.parent # Nil => ShardDone(ShardProcessed, me.parent)
  /\ workers' = [workers EXCEPT ![w].pc = "mark"]
  /\ UNCHANGED otherVars
  /\ UNCHANGED <<ShardProcessed, UserExit, statsVars, Unexpecteds, writerSet,
                 schemaOk, discoveryVars, streamVars, histVars, statusHist>>

\* The status ProcessShard registers before its loop.
InitialShardStatusDone == TRUE
InitialShardStatus == FALSE

\* streamInfo.SetShardStatus(shardId, false)
MarkInProgress(w) ==
  LET me == workers[w] IN
  /\ me.pc = "mark"
  /\ ShardProcessed' = SetShardStatus(ShardProcessed, me.shard, InitialShardStatus)
  /\ IF InitialShardStatus
     THEN trueSets' = [trueSets EXCEPT ![me.shard] = @ + 1] /\ UNCHANGED falseSets
     ELSE falseSets' = [falseSets EXCEPT ![me.shard] = @ + 1] /\ UNCHANGED trueSets
  /\ workers' = [workers EXCEPT ![w].pc = "iter"]
  /\ UNCHANGED otherVars
  /\ UNCHANGED <<UserExit, statsVars, Unexpecteds, writerSet, schemaOk,
                 discoveryVars, streamVars, histVars>>

\* getShardIterator: the iterator type chosen from lastEvaluatedSequenceNumber.
ShardIteratorTypeTrimHorizon(lastSeq) == "TRIM_HORIZON"
ShardIteratorType(lastSeq) ==
  IF lastSeq = Nil THEN "TRIM_HORIZON" ELSE "AFTER_SEQUENCE_NUMBER"

\* GetShardIterator fails with TrimmedDataAccessException when the sequence
\* number it is given has aged out.
IteratorTrimmed(lastSeq, trim) ==
  ShardIteratorType(lastSeq) = "AFTER_SEQUENCE_NUMBER" /\ lastSeq <= trim

\* The sequence number of the first record the returned iterator reads.
IteratorPositionAtSequenceNumber(lastSeq, trim) ==
  IF ShardIteratorType(lastSeq) = "TRIM_HORIZON" THEN trim + 1 ELSE lastSeq
IteratorPosition(lastSeq, trim) ==
  IF ShardIteratorType(lastSeq) = "TRIM_HORIZON" THEN trim + 1 ELSE lastSeq + 1

\* getShardIterator succeeds.
GetShardIteratorOk(w) ==
  LET me == workers[w] IN
  /\ me.pc = "iter"
  /\ ~IteratorTrimmed(me.lastEvaluatedSequenceNumber, trimPoint[me.shard])
  /\ workers' = [workers EXCEPT
       ![w].shardIterator =
          IteratorPosition(me.lastEvaluatedSequenceNumber, trimPoint[me.shard]),
       ![w].iterType = ShardIteratorType(me.lastEvaluatedSequenceNumber),
       ![w].pc = "records"]
  /\ UNCHANGED otherVars
  /\ UNCHANGED <<ShardProcessed, UserExit, statsVars, Unexpecteds, writerSet,
                 schemaOk, discoveryVars, streamVars, histVars, statusHist>>

\* lastEvaluatedSequenceNumber = nil, after a trimmed result
SequenceNumberKept(lastSeq) == lastSeq
SequenceNumberAfterTrim(lastSeq) == Nil

\* getShardIterator fails, checkTrimmedDataError(err):
\* lastEvaluatedSequenceNumber = nil; continue
GetShardIteratorTrimmed(w) ==
  LET me == workers[w] IN
  /\ me.pc = "iter"
  /\ IteratorTrimmed(me.lastEvaluatedSequenceNumber, trimPoint[me.shard])
  /\ workers' = [workers EXCEPT
       ![w].lastEvaluatedSequenceNumber =
          SequenceNumberAfterTrim(me.lastEvaluatedSequenceNumber),
       ![w].trimmedBefore = TRUE,
       ![w].recoveries = @ + 1]
  /\ UNCHANGED otherVars
  /\ UNCHANGED <<ShardProcessed, UserExit, statsVars, Unexpecteds, writerSet,
                 schemaOk, discoveryVars, streamVars, histVars, statusHist>>

\* getShardIterator fails with any other error: Unexpected(...); break
GetShardIteratorError(w) ==
  LET me == workers[w] IN
  /\ me.pc = "iter"
  /\ Unexpecteds' = Unexpected(Unexpecteds, "getShardIterator")
  /\ workers' = [workers EXCEPT
       ![w].trimmedBefore = FALSE,
       ![w].pc = "exit", ![w].exit = "iterError"]
  /\ UNCHANGED otherVars
  /\ UNCHANGED <<ShardProcessed, UserExit, statsVars, writerSet, schemaOk,
                 discoveryVars, streamVars, histVars, statusHist>>

\* GetRecords fails with TrimmedDataAccessException when the iterator points
\* at a record that has aged out, and on a closed shard all of whose records
\* have aged out (the iterator of such a shard is still handed out).
RecordsTrimmed(it, trim, isClosed) ==
  it <= trim \/ (isClosed /\ trim = MaxRecs)

\* checkTrimmedDataError(err) && retryCount < 5
TrimRetryAllowedOnceMore(retryCount) == retryCount <= trimRetryLimit
TrimRetryAllowed(retryCount) == retryCount < trimRetryLimit

CountTrimCall(n) == IF n >= 0 THEN n + 1 ELSE n
CountDrain(me) == IF me.passAfterUserExit THEN me.drainFetches + 1 ELSE me.drainFetches

\* getRecords fails with TrimmedDataAccessException.
GetRecordsTrimmed(w) ==
  LET me == workers[w] IN
  /\ me.pc = "records"
  /\ RecordsTrimmed(me.shardIterator, trimPoint[me.shard], closed[me.shard])
  /\ IF TrimRetryAllowed(me.retryCount)
     THEN /\ workers' = [workers EXCEPT
               ![w].lastEvaluatedSequenceNumber =
                  SequenceNumberAfterTrim(me.lastEvaluatedSequenceNumber),
               ![w].retryCount = @ + 1,
               ![w].recoveries = @ + 1,
               ![w].trimCalls = CountTrimCall(@),
               ![w].drainFetches = CountDrain(me),
               ![w].shardIterator = Nil,
               ![w].iterType = "none",
               ![w].trimmedBefore = FALSE,
               ![w].pc = "iter"]
          /\ UNCHANGED Unexpecteds
     ELSE /\ Unexpecteds' = Unexpected(Unexpecteds, "fetchRecords")
          /\ workers' = [workers EXCEPT
               ![w].trimCalls = CountTrimCall(@),
               ![w].drainFetches = CountDrain(me),
               ![w].shardIterator = Nil,
               ![w].iterType = "none",
               ![w].trimmedBefore = FALSE,
               ![w].pc = "exit", ![w].exit = "trimCap"]
  /\ UNCHANGED otherVars
  /\ UNCHANGED <<ShardProcessed, UserExit, statsVars, writerSet, schemaOk,
                 discoveryVars, streamVars, histVars, statusHist>>

\* getRecords fails with any other error: Unexpected(...); break
GetRecordsError(w) ==
  LET me == workers[w] IN
  /\ me.pc = "records"
  /\ Unexpecteds' = Unexpected(Unexpecteds, "fetchRecords")
  /\ workers' = [workers EXCEPT
       ![w].trimCalls = -1,
       ![w].drainFetches = CountDrain(me),
       ![w].shardIterator = Nil,
       ![w].iterType = "none",
       ![w].trimmedBefore = FALSE,
       ![w].pc = "exit", ![w].exit = "recordsError"]
  /\ UNCHANGED otherVars
  /\ UNCHANGED <<ShardProcessed, UserExit, statsVars, writerSet, schemaOk,
                 discoveryVars, streamVars, histVars, statusHist>>

\* The records GetRecords returns: the next m records from the iterator on.
Batch(it, m) == [i \in 1..m |-> it + i - 1]

\* for _, record := range records
RangeOrderReversed(records) == [i \in 1..Len(records) |-> records[Len(records) + 1 - i]]
RangeOrder(records) == records

\* } else { retryCount = 0 }
RetryCountKept(retryCount) == retryCount
RetryCountAfterSuccess(retryCount) == 0

\* getRecords succeeds with m records: retryCount = 0; records := ...
GetRecordsOk(w, m) ==
  LET me == workers[w]
      it == me.shardIterator
  IN
  /\ me.pc = "records"
  /\ ~RecordsTrimmed(it, trimPoint[me.shard], closed[me.shard])
  /\ it + m - 1 <= MaxRecs
  /\ workers' = [workers EXCEPT
       ![w].retryCount = RetryCountAfterSuccess(@),
       ![w].recoveries = 0,
       ![w].records = RangeOrder(Batch(it, m)),
       ![w].nextNil = (closed[me.shard] /\ it + m > MaxRecs),
       ![w].fetched = @ \o Batch(it, m),
       ![w].batches = IF m > 0 THEN @ + 1 ELSE @,
       ![w].trimCalls = -1,
       ![w].drainFetches = CountDrain(me),
       ![w].shardIterator = Nil,
       ![w].pc = "process"]
  /\ UNCHANGED otherVars
  /\ UNCHANGED <<ShardProcessed, UserExit, statsVars, Unexpecteds, writerSet,
                 schemaOk, discoveryVars, streamVars, histVars, statusHist>>

\* --------------------------------------------------------- ProcessRecord
\* parentDataMissingError: the message contains "NotFound", "Parent row"
\* and "is missing".
parentDataMissingErrorMiscased(err) ==
  "NotFound" \in err /\ "Parent Row" \in err /\ "is missing" \in err
parentDataMissingErrorNotFoundOnly(err) == "NotFound" \in err
parentDataMissingError(err) ==
  "NotFound" \in err /\ "Parent row" \in err /\ "is missing" \in err

\* streamInfo.write(m) on its attempt-th invocation for one mutation: the
\* writer fails k times with the parent-row-missing error, then returns final.
WriterResult(attempt, k, final) ==
  IF attempt <= k THEN ParentMissingErr ELSE final

\* The numbers of leading parent-row-missing failures tried.
FailCounts == {0, 2, retryLimit - 1, retryLimit, retryLimit + 1}

\* What the writer may return once it stops failing with parent-row-missing.
WriterFinals == {NilErr} \cup OtherWriteErrs

\* The attempts at which the loop of writeMutation breaks:
\* err == nil || !parentDataMissingError(err)
BreakAttempts(k, final) ==
  {a \in 1..retryLimit :
     LET e == WriterResult(a, k, final)
     IN e = NilErr \/ ~parentDataMissingError(e)}

\* writeMutation: for retryLimit > 0 { err = write(m); if err == nil ||
\* !parentDataMissingError(err) { break }; sleep; retryLimit-- }; return err.
\* The loop ends at the first attempt that breaks, or after retryLimit
\* attempts; it returns the error of its last attempt.
writeMutationRun(k, final) ==
  LET stops == BreakAttempts(k, final)
      last == IF stops = {} THEN retryLimit
              ELSE CHOOSE a \in stops : \A b \in stops : a <= b
  IN [calls |-> last, err |-> WriterResult(last, k, final)]

writeMutationTable ==
  [k \in FailCounts, final \in WriterFinals |-> writeMutationRun(k, final)]

writeMutation(k, final) == writeMutationTable[k, final]

\* if eventName == "REMOVE" { srcImage = record.Dynamodb.Keys }
\* else { srcImage = record.Dynamodb.NewImage }
SrcImage(eventName) == IF eventName = "REMOVE" THEN "Keys" ELSE "NewImage"

\* spVals, badCols, srcStrVals := cvtRow(srcImage, ...): the values converted
\* from the chosen image of the record.
cvtRow(srcImage, record) == [record |-> record, image |-> srcImage]

\* getMutation: the kind of mutation built for an event name, from the
\* converted values.
getMutationModifyAsInsert(eventName, spVals) ==
  IF eventName \in {"INSERT", "MODIFY"} THEN [op |-> "Insert", vals |-> spVals]
  ELSE [op |-> "Delete", vals |-> spVals]
getMutationInsertAsUpsert(eventName, spVals) ==
  IF eventName \in {"INSERT", "MODIFY"} THEN [op |-> "InsertOrUpdate", vals |-> spVals]
  ELSE [op |-> "Delete", vals |-> spVals]
getMutation(eventName, spVals) ==
  IF eventName = "INSERT" THEN [op |-> "Insert", vals |-> spVals]
  ELSE IF eventName = "MODIFY" THEN [op |-> "InsertOrUpdate", vals |-> spVals]
  ELSE [op |-> "Delete", vals |-> spVals]

\* The path ProcessRecord and writeRecord take for one record.
RecordOutcomeBadColsIgnored(schema, badCols, writer, err) ==
  IF ~schema THEN "schemaError"
  ELSE IF ~writer THEN "noWriter"
  ELSE IF err # NilErr THEN "dropped"
  ELSE "written"
RecordOutcomeWriterUnchecked(schema, badCols, writer, err) ==
  IF ~schema THEN "schemaError"
  ELSE IF badCols THEN "bad"
  ELSE IF err # NilErr THEN "dropped"
  ELSE "written"
RecordOutcome(schema, badCols, writer, err) ==
  IF ~schema THEN "schemaError"
  ELSE IF badCols THEN "bad"
  ELSE IF ~writer THEN "noWriter"
  ELSE IF err # NilErr THEN "dropped"
  ELSE "written"

\* lastEvaluatedSequenceNumber = record.Dynamodb.SequenceNumber, after
\* ProcessRecord has returned with whatever outcome
SequenceNumberAfterWritten(lastSeq, record, outcome) ==
  IF outcome = "written" THEN record ELSE lastSeq
SequenceNumberAfterRecord(lastSeq, record, outcome) == record

\* ProcessRecord(conv, streamInfo, record, srcTable);
\* lastEvaluatedSequenceNumber = record.Dynamodb.SequenceNumber
ProcessRecord(w, badCols, k, final) ==
  LET me == workers[w]
      record == Head(me.records)
      eventName == eventNames[me.shard][record]
      spVals == cvtRow(SrcImage(eventName), record)
      res == writeMutation(k, final)
      outcome == RecordOutcome(schemaOk, badCols, writerSet, res.err)
      handed == outcome \in {"dropped", "written"}
  IN
  /\ me.pc = "process"
  /\ me.records # <<>>
  /\ Records' = StatsAdd(Records, eventName)
  /\ BadRecords' = IF outcome \in {"bad", "noWriter"}
                   THEN StatsAdd(BadRecords, eventName) ELSE BadRecords
  /\ SampleBadRecords' = IF outcome = "bad"
                         THEN CollectBadRecord(SampleBadRecords) ELSE SampleBadRecords
  /\ DroppedRecords' = IF outcome = "dropped"
                       THEN StatsAdd(DroppedRecords, eventName) ELSE DroppedRecords
  /\ Unexpecteds' = IF outcome = "schemaError" THEN Unexpected(Unexpecteds, "colsAndSchemas")
                    ELSE IF outcome = "noWriter" THEN Unexpected(Unexpecteds, "writer")
                    ELSE Unexpecteds
  /\ recordsProcessed' = IF outcome = "schemaError"
                         THEN recordsProcessed ELSE recordsProcessed + 1
  /\ workers' = [workers EXCEPT
       ![w].records = Tail(@),
       ![w].lastEvaluatedSequenceNumber =
          SequenceNumberAfterRecord(@, record, outcome),
       ![w].applied = Append(@, [seq |-> record, outcome |-> outcome,
                                 badCols |-> schemaOk /\ badCols]),
       ![w].writes = IF handed THEN Append(@, getMutation(eventName, spVals)) ELSE @]
  /\ UNCHANGED otherVars
  /\ UNCHANGED <<ShardProcessed, UserExit, writerSet, schemaOk, discoveryVars,
                 streamVars, histVars, statusHist>>

\* After the batch: if NextShardIterator == nil || passAfterUserExit { break };
\* if UserExit { passAfterUserExit = true } else if len(records) == 0 { sleep }
BreakOnlyAfterUserExit(nextNil, pass) == pass
BreakAfterBatch(nextNil, pass) == nextNil \/ pass

\* for _, record := range records { ... }: the loop ends when every record of
\* the batch has been handed to ProcessRecord; it does not read UserExit.
RangeEndsOnUserExit(records, userExit) == records = <<>> \/ userExit
RangeEnds(records, userExit) == records = <<>>

EndBatch(w) ==
  LET me == workers[w] IN
  /\ me.pc = "process"
  /\ RangeEnds(me.records, UserExit)
  /\ IF BreakAfterBatch(me.nextNil, me.passAfterUserExit)
     THEN workers' = [workers EXCEPT
            ![w].pc = "exit",
            ![w].nextNil = FALSE,
            ![w].iterType = "none",
            ![w].trimmedBefore = FALSE,
            ![w].exit = IF me.nextNil THEN "closed" ELSE "drain"]
     ELSE \E seen \in UserExitRead :
            workers' = [workers EXCEPT
              ![w].passAfterUserExit = seen,
              ![w].iterType = "none",
              ![w].trimmedBefore = FALSE,
              ![w].pc = "iter"]
  /\ UNCHANGED otherVars
  /\ UNCHANGED <<ShardProcessed, UserExit, statsVars, Unexpecteds, writerSet,
                 schemaOk, discoveryVars, streamVars, histVars, statusHist>>

\* The status ProcessShard registers after its loop, whatever broke it.
StatusOnExitCleanOnly(exit) == exit \in {"closed", "drain"}
StatusOnExit(exit) == TRUE

\* streamInfo.SetShardStatus(shardId, true); deferred wgShard.Done()
ExitShard(w) ==
  LET me == workers[w] IN
  /\ me.pc = "exit"
  /\ ShardProcessed' = SetShardStatus(ShardProcessed, me.shard, StatusOnExit(me.exit))
  /\ IF StatusOnExit(me.exit)
     THEN trueSets' = [trueSets EXCEPT ![me.shard] = @ + 1] /\ UNCHANGED falseSets
     ELSE falseSets' = [falseSets EXCEPT ![me.shard] = @ + 1] /\ UNCHANGED trueSets
  /\ workers' = [workers EXCEPT ![w].pc = "done"]
  /\ UNCHANGED otherVars
  /\ UNCHANGED <<UserExit, statsVars, Unexpecteds, writerSet, schemaOk,
                 discoveryVars, streamVars, histVars>>

\* The steps of ProcessShard on a stream none of whose records age out.
ProcessShardSteps(w) ==
  \/ waitForParentShard(w)
  \/ MarkInProgress(w)
  \/ GetShardIteratorOk(w)
  \/ GetShardIteratorError(w)
  \/ GetRecordsError(w)
  \/ \E m \in 0..MaxRecs : GetRecordsOk(w, m)
  \/ EndBatch(w)
  \/ ExitShard(w)

\* --------------------------------------------------- the whole pipeline
\* Every shard of the stream, its workers running side by side; records
\* convert and are written without error and none ages out.
Next ==
  \/ catchCtrlC
  \/ ProcessStreamFetch(NumShards)
  \/ ProcessStreamFetchError
  \/ ProcessStreamWait
  \/ \E w \in Workers : ProcessShardSteps(w)
  \/ \E w \in Workers : ProcessRecord(w, FALSE, 0, NilErr)
  \/ \E s \in ShardIds : CloseShard(s)

Spec == Init /\ [][Next]_vars

\* --------------------------------------------------------- one shard
\* A stream of one shard, with records that age out, conversions and writes
\* that fail, and a writer or a schema that may be missing.
NextShard ==
  \/ catchCtrlC
  \/ ProcessStreamFetch(1)
  \/ ProcessStreamFetchError
  \/ ProcessStreamWait
  \/ \E w \in Workers : ProcessShardSteps(w)
  \/ \E w \in Workers : GetShardIteratorTrimmed(w)
  \/ \E w \in Workers : GetRecordsTrimmed(w)
  \/ \E w \in Workers, badCols \in BOOLEAN, k \in FailCounts, final \in WriterFinals :
       ProcessRecord(w, badCols, k, final)
  \/ Expire(1)
  \/ CloseShard(1)

SpecShard == InitShard /\ [][NextShard]_vars

\* One shard holding any records: every choice of INSERT, MODIFY and REMOVE
\* for its sequence numbers, each converted or not and accepted or rejected by
\* the writer.
InitRecords ==
  /\ InitPipeline
  /\ eventNames \in {[s \in ShardIds |->
                        IF s = 1 THEN c ELSE [q \in SeqNums |-> EventName(s, q)]] :
                      c \in [SeqNums -> EventKinds]}
  /\ writerSet = TRUE
  /\ schemaOk = TRUE
  /\ InitCutover
  /\ RemoveIdle
  /\ WriteIdle
  /\ NewStreamIdle
  /\ ReplayIdle
  /\ CountIdle

NextRecords ==
  \/ catchCtrlC
  \/ ProcessStreamFetch(1)
  \/ ProcessStreamWait
  \/ \E w \in Workers : ProcessShardSteps(w)
  \/ \E w \in Workers, badCols \in BOOLEAN, final \in WriterFinals :
       ProcessRecord(w, badCols, 0, final)
  \/ CloseShard(1)

SpecRecords == InitRecords /\ [][NextRecords]_vars

\* A DescribeStream result that lists again a shard already handed to a
\* worker (the service ignoring ExclusiveStartShardId), with the parent it
\* listed before.
ProcessStreamFetchRepeated ==
  \E w \in Workers :
    /\ workers[w].pc # "idle"
    /\ ProcessStreamPass(<<workers[w].shard>>,
                         [s \in ShardIds |-> IF s = workers[w].shard
                                             THEN workers[w].parent ELSE Nil],
                         TRUE)

\* A stream of one shard that DescribeStream may list again.
NextRepeat ==
  \/ catchCtrlC
  \/ ProcessStreamFetch(1)
  \/ ProcessStreamFetchRepeated
  \/ ProcessStreamFetchError
  \/ ProcessStreamWait
  \/ \E w \in Workers : ProcessShardSteps(w)
  \/ \E w \in Workers : ProcessRecord(w, FALSE, 0, NilErr)
  \/ CloseShard(1)

SpecRepeat == Init /\ [][NextRepeat]_vars

\* --------------------------------------------------------- cutoverHelper
\* What the shard workers add to recordsProcessed within one minute.
Deltas == {50, 1000}

\* StatsAddRecordProcessed, d times since the last tick.
RecordsProcessedGrow(d) ==
  /\ cpc = "run"
  /\ timer < MaxTicks
  /\ recordsProcessed = tillLastMin
  /\ recordsProcessed' = recordsProcessed + d
  /\ UNCHANGED <<UserExit, pipelineVars, cutoverVars, removeVars>>

\* optimumCondition := (lastFiveMin*100 <= 5*firstFiveMin) || (lastMin == 0)
OptimumNoIdleClause(lastFive, firstFive, lastMin) ==
  lastFive * 100 <= 5 * firstFive
Optimum(lastFive, firstFive, lastMin) ==
  (lastFive * 100 <= 5 * firstFive) \/ (lastMin = 0)

\* if timer < 5 { firstFiveMin += arr[counter] }
BaselineOpenSixTicks(t) == t <= 5
BaselineOpen(t) == t < 5

\* lastFiveMin -= arr[counter]: the delta that leaves the ring.
LeavesRingNothing(ring, counter) == 0
LeavesRing(ring, counter) == ring[counter]

\* One wake-up of cutoverHelper with UserExit false: the body of the loop.
cutoverTick ==
  LET counter == timer % 5
      delta == recordsProcessed - tillLastMin
      newLast == lastFiveMin - LeavesRing(arr, counter) + delta
      newFirst == IF BaselineOpen(timer) THEN firstFiveMin + delta ELSE firstFiveMin
  IN
  /\ cpc = "run"
  /\ FALSE \in UserExitRead
  /\ timer < MaxTicks
  /\ arr' = [arr EXCEPT ![counter] = delta]
  /\ tillLastMin' = tillLastMin + delta
  /\ lastFiveMin' = newLast
  /\ firstFiveMin' = newFirst
  /\ optimumCondition' = Optimum(newLast, newFirst, delta)
  /\ timer' = timer + 1
  /\ deltas' = Append(deltas, delta)
  /\ UNCHANGED cpc
  /\ UNCHANGED <<UserExit, recordsProcessed, pipelineVars, removeVars>>

\* if streamInfo.UserExit { break }: whether the wake-up that read seen leaves
\* the loop.
BreaksAlways(seen) == TRUE
Breaks(seen) == seen

\* if streamInfo.UserExit { break }
cutoverExitClearsFlag ==
  /\ cpc = "run"
  /\ TRUE \in UserExitRead
  /\ cpc' = "done"
  /\ UserExit' = FALSE
  /\ UNCHANGED <<timer, firstFiveMin, lastFiveMin, tillLastMin, arr,
                 optimumCondition, deltas>>
  /\ UNCHANGED <<recordsProcessed, pipelineVars, removeVars>>

\* One wake-up with UserExit true: break; deferred wg.Done()
cutoverExit ==
  /\ cpc = "run"
  /\ \E seen \in UserExitRead : Breaks(seen)
  /\ cpc' = "done"
  /\ UNCHANGED <<timer, firstFiveMin, lastFiveMin, tillLastMin, arr,
                 optimumCondition, deltas>>
  /\ UNCHANGED <<UserExit, recordsProcessed, pipelineVars, removeVars>>

NextCutover ==
  \/ catchCtrlC
  \/ \E d \in Deltas : RecordsProcessedGrow(d)
  \/ cutoverTick
  \/ cutoverExit

SpecCutover == Init /\ [][NextCutover]_vars

\* The advisor wakes every 60 seconds for as long as it runs, and a flag that
\* stays set is read as set at some wake-up.
SpecAdvisor == Init /\ [][NextCutover]_vars /\ WF_vars(cutoverExit)

\* ------------------------------------------------ the goroutines together
\* What the streaming migration starts side by side: the signal handler, the
\* cutover advisor, discovery and the worker of one shard whose records
\* convert and are written without error.
NextProgram ==
  \/ catchCtrlC
  \/ cutoverTick
  \/ cutoverExit
  \/ ProcessStreamFetch(1)
  \/ ProcessStreamFetchError
  \/ ProcessStreamWait
  \/ \E w \in Workers : ProcessShardSteps(w)
  \/ \E w \in Workers : ProcessRecord(w, FALSE, 0, NilErr)
  \/ CloseShard(1)

SpecProgram == Init /\ [][NextProgram]_vars

\* -------------------------------------------------------- removeMutation
Cols == 1..NumCols

\* The Spanner value a present attribute converts to (never nil).
ValueOf(c) == NumCols + c

\* cvtRow on a key image: one value per column of ColNames, nil for a column
\* the image does not hold.
SpVals(colNames, image) ==
  [i \in 1..Len(colNames) |-> IF colNames[i] \in image THEN ValueOf(colNames[i]) ELSE Nil]

Panic == [kind |-> "panic", key |-> <<>>]
Delete(key) == [kind |-> "Delete", key |-> key]

\* if primaryKeys[0].Column != srcKeys[0]
SwapNever(pk0, srcKey0) == FALSE
SwapNeeded(pk0, srcKey0) == pk0 # srcKey0

\* removeMutation(srcSchema, spTable, srcTable, spVals); indexing past the
\* end of a slice panics.
removeMutation(colNames, primaryKeys, spVals) ==
  LET idx == SelectSeq([i \in 1..Len(spVals) |-> i], LAMBDA i : spVals[i] # Nil)
      srcKeys == [j \in 1..Len(idx) |-> colNames[idx[j]]]
      reqSpVals == [j \in 1..Len(idx) |-> spVals[idx[j]]]
  IN
  IF Len(primaryKeys) = 0 \/ Len(srcKeys) = 0 THEN Panic
  ELSE IF SwapNeeded(primaryKeys[1], srcKeys[1])
       THEN IF Len(reqSpVals) < 2 THEN Panic
            ELSE Delete(<<reqSpVals[2], reqSpVals[1]>>)
       ELSE IF Len(reqSpVals) = 1 THEN Delete(<<reqSpVals[1]>>)
            ELSE Delete(<<reqSpVals[1], reqSpVals[2]>>)

\* The sequences that hold each element of S exactly once.
ColumnOrders(S) ==
  {f \in [1..Cardinality(S) -> S] : \A i, j \in 1..Cardinality(S) : f[i] = f[j] => i = j}

\* The declared primary keys: a hash key, or a hash key and a range key.
PrimaryKeyChoices ==
  {<<h>> : h \in Cols} \cup {pk \in Cols \X Cols : pk[1] # pk[2]}

Range(f) == {f[i] : i \in DOMAIN f}

\* A table and the key image of one REMOVE record of it.
InitRemove ==
  /\ InitStream
  /\ writerSet = TRUE
  /\ schemaOk = TRUE
  /\ InitCutover
  /\ rmColNames \in ColumnOrders(Cols)
  /\ rmPrimaryKeys \in PrimaryKeyChoices
  /\ rmImage \in SUBSET Range(rmPrimaryKeys)
  /\ rmResult = NoMutation
  /\ WriteIdle
  /\ NewStreamIdle
  /\ ReplayIdle
  /\ CountIdle

\* getMutation on the REMOVE record: m = removeMutation(...)
RemoveStep ==
  /\ rmResult = NoMutation
  /\ rmResult' = removeMutation(rmColNames, rmPrimaryKeys, SpVals(rmColNames, rmImage))
  /\ UNCHANGED <<rmColNames, rmPrimaryKeys, rmImage>>
  /\ UNCHANGED <<UserExit, recordsProcessed, pipelineVars, cutoverVars>>

NextRemove == RemoveStep

SpecRemove == InitRemove /\ [][NextRemove]_vars

\* ------------------------------------------- writeRecord, step by step
\* What writeRecord and writeMutation never touch.
notWriteVars == <<ShardProcessed, UserExit, Records, SampleBadRecords,
                  writerSet, schemaOk,
                  discoveryVars, workers, streamVars, histVars, statusHist,
                  cutoverVars, removeVars, newStreamVars, eventNames,
   replayVars, countVars>>

\* ProcessRecord has counted one record of some kind and converted it
\* without bad columns; the writer may be unset.
InitWrite ==
  /\ InitStream
  /\ writerSet \in BOOLEAN
  /\ schemaOk = TRUE
  /\ InitCutover
  /\ RemoveIdle
  /\ NewStreamIdle
  /\ ReplayIdle
  /\ CountIdle
  /\ wpc = "record"
  /\ wrEventName \in EventKinds
  /\ wrFails \in FailCounts
  /\ wrFinal \in WriterFinals
  /\ wrRetryLimit = 0
  /\ wrErr = NilErr
  /\ wrCalls = 0
  /\ wrApplied = 0

\* writeRecord: if streamInfo.write == nil { StatsAddBadRecord; Unexpected }
\* else { m := getMutation(...); err := writeMutation(m, streamInfo) ... },
\* up to retryLimit := 1000; var err error
writeRecordEnter ==
  /\ wpc = "record"
  /\ IF ~writerSet
     THEN /\ BadRecords' = StatsAdd(BadRecords, wrEventName)
          /\ Unexpecteds' = Unexpected(Unexpecteds, "writer")
          /\ wpc' = "returned"
          /\ UNCHANGED wrRetryLimit
     ELSE /\ wrRetryLimit' = retryLimit
          /\ wpc' = "loop"
          /\ UNCHANGED <<BadRecords, Unexpecteds>>
  /\ UNCHANGED <<wrEventName, wrFails, wrFinal, wrErr, wrCalls, wrApplied>>
  /\ UNCHANGED <<DroppedRecords, recordsProcessed, notWriteVars>>

\* for retryLimit > 0
RetryLeftOnceMore(n) == n >= 0
RetryLeft(n) == n > 0

\* One turn of the loop of writeMutation: err = streamInfo.write(m);
\* if err == nil || !parentDataMissingError(err) { break }; sleep; retryLimit--
writeAttempt ==
  LET err == WriterResult(wrCalls + 1, wrFails, wrFinal) IN
  /\ wpc = "loop"
  /\ RetryLeft(wrRetryLimit)
  /\ wrErr' = err
  /\ wrCalls' = wrCalls + 1
  /\ wrApplied' = IF err = NilErr THEN wrApplied + 1 ELSE wrApplied
  /\ IF err = NilErr \/ ~parentDataMissingError(err)
     THEN wpc' = "returned" /\ UNCHANGED wrRetryLimit
     ELSE wpc' = wpc /\ wrRetryLimit' = wrRetryLimit - 1
  /\ UNCHANGED <<wrEventName, wrFails, wrFinal>>
  /\ UNCHANGED <<BadRecords, DroppedRecords, Unexpecteds, recordsProcessed,
                 notWriteVars>>

\* The loop of writeMutation ends with retryLimit used up: return err
writeMutationExhausted ==
  /\ wpc = "loop"
  /\ ~RetryLeft(wrRetryLimit)
  /\ wpc' = "returned"
  /\ UNCHANGED <<wrEventName, wrFails, wrFinal, wrRetryLimit, wrErr, wrCalls,
                 wrApplied>>
  /\ UNCHANGED <<BadRecords, DroppedRecords, Unexpecteds, recordsProcessed,
                 notWriteVars>>

\* Back in writeRecord: if err != nil { StatsAddDroppedRecord; Collect... };
\* back in ProcessRecord: StatsAddRecordProcessed()
writeRecordReturn ==
  /\ wpc = "returned"
  /\ DroppedRecords' = IF wrErr # NilErr
                       THEN StatsAdd(DroppedRecords, wrEventName)
                       ELSE DroppedRecords
  /\ recordsProcessed' = recordsProcessed + 1
  /\ wpc' = "done"
  /\ UNCHANGED <<wrEventName, wrFails, wrFinal, wrRetryLimit, wrErr, wrCalls,
                 wrApplied>>
  /\ UNCHANGED <<BadRecords, Unexpecteds, notWriteVars>>

NextWrite ==
  \/ writeRecordEnter
  \/ writeAttempt
  \/ writeMutationExhausted
  \/ writeRecordReturn

SpecWrite == InitWrite /\ [][NextWrite]_vars

\* ----------------------------------------------------- NewDynamoDBStream
StreamViewTypes == {"KEYS_ONLY", "OLD_IMAGE", "NEW_IMAGE", "NEW_AND_OLD_IMAGES"}
StreamArns == {"arn:1", "arn:2"}

\* What NewDynamoDBStream never touches.
notNewStreamVars == <<UserExit, recordsProcessed, ShardProcessed, Records,
                      SampleBadRecords,
                      BadRecords, DroppedRecords, Unexpecteds, writerSet,
                      schemaOk, discoveryVars, workers, streamVars, histVars,
                      statusHist, writeVars, cutoverVars, removeVars,
                      eventNames,
   replayVars, countVars>>

\* A table with or without a stream, and what DescribeTable and UpdateTable
\* will answer.
InitNewStream ==
  /\ InitStream
  /\ writerSet = TRUE
  /\ schemaOk = TRUE
  /\ InitCutover
  /\ RemoveIdle
  /\ WriteIdle
  /\ ReplayIdle
  /\ CountIdle
  /\ nspc = "describe"
  /\ describeErr \in BOOLEAN
  /\ streamViewType \in StreamViewTypes \cup {"none"}
  /\ latestStreamArn \in StreamArns
  /\ updateErr \in BOOLEAN
  /\ newStreamArn \in StreamArns
  /\ nsResult = NoResult
  /\ updateCalls = 0
  /\ updateViewType = "none"

\* case dynamodb.StreamViewTypeKeysOnly, case dynamodb.StreamViewTypeOldImage
ViewTypeRejectedKeysOnly(v) == v = "KEYS_ONLY"
ViewTypeRejected(v) == v \in {"KEYS_ONLY", "OLD_IMAGE"}

\* result, err := client.DescribeTable(...) and the switch on the view type
\* of an existing stream specification.
NewDynamoDBStreamDescribe ==
  /\ nspc = "describe"
  /\ IF describeErr
     THEN /\ nsResult' = [arn |-> NoArn, err |-> "DescribeTable"]
          /\ nspc' = "done"
     ELSE IF streamViewType # "none"
     THEN /\ nsResult' = IF ViewTypeRejected(streamViewType)
                         THEN [arn |-> NoArn, err |-> streamViewType]
                         ELSE [arn |-> latestStreamArn, err |-> "none"]
          /\ nspc' = "done"
     ELSE /\ nspc' = "update"
          /\ UNCHANGED nsResult
  /\ UNCHANGED <<describeErr, streamViewType, latestStreamArn, updateErr,
                 newStreamArn, updateCalls, updateViewType>>
  /\ UNCHANGED notNewStreamVars

\* res, err := client.UpdateTable(...) with StreamEnabled and
\* StreamViewTypeNewAndOldImages
NewDynamoDBStreamUpdate ==
  /\ nspc = "update"
  /\ updateCalls' = updateCalls + 1
  /\ updateViewType' = "NEW_AND_OLD_IMAGES"
  /\ nsResult' = IF updateErr
                 THEN [arn |-> NoArn, err |-> "UpdateTable"]
                 ELSE [arn |-> newStreamArn, err |-> "none"]
  /\ nspc' = "done"
  /\ UNCHANGED <<describeErr, streamViewType, latestStreamArn, updateErr,
                 newStreamArn>>
  /\ UNCHANGED notNewStreamVars

NextNewStream ==
  \/ NewDynamoDBStreamDescribe
  \/ NewDynamoDBStreamUpdate

SpecNewStream == InitNewStream /\ [][NextNewStream]_vars

\* ------------------------------------ one record, applied and replayed
\* The row a mutation writes: the values converted from NewImage; the Keys
\* image holds the key columns only.
KeysOnlyRow == NumVals + 1
RowOf(spVals) ==
  IF spVals.image = "NewImage" THEN spVals.record.val ELSE KeysOnlyRow

\* client.Apply(ctx, []*sp.Mutation{m}) on the table: Insert fails when the
\* row exists, InsertOrUpdate writes the row, Delete removes it and succeeds
\* when there is none.
Apply(rows, m) ==
  LET key == m.vals.record.key IN
  IF m.op = "Insert"
  THEN IF rows[key] # Absent
       THEN [rows |-> rows, err |-> {"AlreadyExists"}]
       ELSE [rows |-> [rows EXCEPT ![key] = RowOf(m.vals)], err |-> NilErr]
  ELSE IF m.op = "InsertOrUpdate"
  THEN [rows |-> [rows EXCEPT ![key] = RowOf(m.vals)], err |-> NilErr]
  ELSE [rows |-> [rows EXCEPT ![key] = Absent], err |-> NilErr]

\* Any table, and any record of it.
InitReplay ==
  /\ InitStream
  /\ writerSet = TRUE
  /\ schemaOk = TRUE
  /\ InitCutover
  /\ RemoveIdle
  /\ WriteIdle
  /\ NewStreamIdle
  /\ CountIdle
  /\ spRows \in [RowKeys -> {Absent} \cup RowVals]
  /\ rpRecord \in [eventName : EventKinds, key : RowKeys, val : RowVals]
  /\ rpApplied = 0
  /\ rpOnce = NoSnapshot

\* ProcessRecord on the record, the stream delivering it once more each time:
\* the record converts, writeRecord builds its mutation and writeMutation
\* hands it to the writer, whose error is not a parent-row-missing one.
ReplayRecord ==
  LET eventName == rpRecord.eventName
      spVals == cvtRow(SrcImage(eventName), [key |-> rpRecord.key, val |-> rpRecord.val])
      m == getMutation(eventName, spVals)
      res == Apply(spRows, m)
      outcome == RecordOutcome(schemaOk, FALSE, writerSet, res.err)
  IN
  /\ rpApplied <= MaxReplays
  /\ ~parentDataMissingError(res.err)
  /\ Records' = StatsAdd(Records, eventName)
  /\ DroppedRecords' = IF outcome = "dropped"
                       THEN StatsAdd(DroppedRecords, eventName) ELSE DroppedRecords
  /\ recordsProcessed' = recordsProcessed + 1
  /\ spRows' = res.rows
  /\ rpApplied' = rpApplied + 1
  /\ rpOnce' = IF rpApplied = 0
               THEN [rows |-> res.rows, dropped |-> DroppedRecords'[eventName]]
               ELSE rpOnce
  /\ UNCHANGED <<ShardProcessed, UserExit, BadRecords, SampleBadRecords,
                 Unexpecteds, writerSet,
                 schemaOk, discoveryVars, workers, streamVars, histVars,
                 statusHist, cutoverVars, removeVars, writeVars, newStreamVars,
                 eventNames, rpRecord, countVars>>

NextReplay == ReplayRecord

SpecReplay == InitReplay /\ [][NextReplay]_vars

\* ------------------------------- ProcessRecord, statement by statement
\* What the statements of ProcessRecord and writeRecord never touch.
notCountVars == <<ShardProcessed, UserExit, writerSet, schemaOk,
                  discoveryVars, workers, streamVars, histVars, statusHist,
                  cutoverVars, removeVars, writeVars, newStreamVars,
                  eventNames, replayVars>>

\* Two shard workers, each about to hand its records to ProcessRecord; the
\* writer may be unset and the schemas may not resolve.
InitCount ==
  /\ InitStream
  /\ writerSet \in BOOLEAN
  /\ schemaOk \in BOOLEAN
  /\ InitCutover
  /\ RemoveIdle
  /\ WriteIdle
  /\ NewStreamIdle
  /\ ReplayIdle
  /\ prpc = [g \in Workers |-> "next"]
  /\ prKind = [g \in Workers |-> "INSERT"]
  /\ prTaken = [g \in Workers |-> 0]
  /\ prBad = [g \in Workers |-> 0]
  /\ prDropped = [g \in Workers |-> 0]

\* eventName := *record.EventName; streamInfo.StatsAddRecord(srcTable, eventName)
StatsAddRecord(g, eventName) ==
  /\ prpc[g] = "next"
  /\ prTaken[g] < MaxRecs
  /\ Records' = StatsAdd(Records, eventName)
  /\ prKind' = [prKind EXCEPT ![g] = eventName]
  /\ prTaken' = [prTaken EXCEPT ![g] = @ + 1]
  /\ prBad' = [prBad EXCEPT ![g] = 0]
  /\ prDropped' = [prDropped EXCEPT ![g] = 0]
  /\ prpc' = [prpc EXCEPT ![g] = "schemas"]
  /\ UNCHANGED <<BadRecords, DroppedRecords, SampleBadRecords, recordsProcessed,
                 Unexpecteds, notCountVars>>

\* getColsAndSchemas; if err != nil { streamInfo.Unexpected(...); return }
getColsAndSchemas(g) ==
  /\ prpc[g] = "schemas"
  /\ IF schemaOk
     THEN prpc' = [prpc EXCEPT ![g] = "convert"] /\ UNCHANGED Unexpecteds
     ELSE /\ Unexpecteds' = Unexpected(Unexpecteds, "colsAndSchemas")
          /\ prpc' = [prpc EXCEPT ![g] = "next"]
  /\ UNCHANGED <<statsVars, prKind, prTaken, prBad, prDropped, notCountVars>>

\* cvtRow; if len(badCols) == 0 { writeRecord(...) } else
\* { StatsAddBadRecord; CollectBadRecord }
cvtRowStep(g, badCols) ==
  /\ prpc[g] = "convert"
  /\ IF badCols
     THEN /\ BadRecords' = StatsAdd(BadRecords, prKind[g])
          /\ SampleBadRecords' = CollectBadRecord(SampleBadRecords)
          /\ prBad' = [prBad EXCEPT ![g] = @ + 1]
          /\ prpc' = [prpc EXCEPT ![g] = "processed"]
     ELSE /\ prpc' = [prpc EXCEPT ![g] = "write"]
          /\ UNCHANGED <<BadRecords, SampleBadRecords, prBad>>
  /\ UNCHANGED <<Records, DroppedRecords, recordsProcessed, Unexpecteds,
                 prKind, prTaken, prDropped, notCountVars>>

\* if streamInfo.write == nil { ... } else { ... }: whether the else branch
\* (getMutation, writeMutation) runs.
WriterCalledAnyway(writer) == TRUE
WriterCalled(writer) == writer

\* writeRecord: if streamInfo.write == nil { StatsAddBadRecord; Unexpected }
\* else { err := writeMutation(m); if err != nil { StatsAddDroppedRecord;
\* CollectDroppedRecord } }
writeRecord(g, k, final) ==
  LET err == IF writerSet THEN writeMutation(k, final).err ELSE final
      dropped == WriterCalled(writerSet) /\ err # NilErr
  IN
  /\ prpc[g] = "write"
  /\ IF ~writerSet
     THEN /\ BadRecords' = StatsAdd(BadRecords, prKind[g])
          /\ Unexpecteds' = Unexpected(Unexpecteds, "writer")
          /\ prBad' = [prBad EXCEPT ![g] = @ + 1]
     ELSE UNCHANGED <<BadRecords, Unexpecteds, prBad>>
  /\ IF dropped
     THEN /\ DroppedRecords' = StatsAdd(DroppedRecords, prKind[g])
          /\ prDropped' = [prDropped EXCEPT ![g] = @ + 1]
     ELSE UNCHANGED <<DroppedRecords, prDropped>>
  /\ prpc' = [prpc EXCEPT ![g] = "processed"]
  /\ UNCHANGED <<Records, SampleBadRecords, recordsProcessed, prKind, prTaken,
                 notCountVars>>

\* streamInfo.StatsAddRecordProcessed(); the range loop goes to its next record
StatsAddRecordProcessed(g) ==
  /\ prpc[g] = "processed"
  /\ recordsProcessed' = recordsProcessed + 1
  /\ prpc' = [prpc EXCEPT ![g] = "next"]
  /\ UNCHANGED <<Records, BadRecords, DroppedRecords, SampleBadRecords,
                 Unexpecteds, prKind, prTaken, prBad, prDropped, notCountVars>>

NextCount ==
  \/ \E g \in Workers, eventName \in EventKinds : StatsAddRecord(g, eventName)
  \/ \E g \in Workers : getColsAndSchemas(g)
  \/ \E g \in Workers, badCols \in BOOLEAN : cvtRowStep(g, badCols)
  \/ \E g \in Workers, k \in FailCounts, final \in WriterFinals : writeRecord(g, k, final)
  \/ \E g \in Workers : StatsAddRecordProcessed(g)

SpecCount == InitCount /\ [][NextCount]_vars

\* ------------------------------------------------------------ properties
\* The goroutines started for shard s.
WorkersOf(s) == {w \in Workers : workers[w].pc # "idle" /\ workers[w].shard = s}

\* The sequence numbers of the records a worker has passed to ProcessRecord.
SeqsOf(entries) == [i \in 1..Len(entries) |-> entries[i].seq]

\* The records ProcessRecord handed to writeMutation.
Handed(entries) ==
  SelectSeq(entries, LAMBDA e : e.outcome \in {"written", "dropped"})

\* Every record a shard holds, in sequence-number order.
AllRecords == [i \in 1..MaxRecs |-> i]

SumKinds(c) == c["INSERT"] + c["MODIFY"] + c["REMOVE"]

RECURSIVE SumSeq(_)
SumSeq(q) == IF q = <<>> THEN 0 ELSE Head(q) + SumSeq(Tail(q))

FirstN(q, n) == SubSeq(q, 1, IF Len(q) < n THEN Len(q) ELSE n)
LastN(q, n) == SubSeq(q, IF Len(q) < n THEN 1 ELSE Len(q) - n + 1, Len(q))

\* C1: the worker of a shard that has a parent neither marks itself in
\* progress nor fetches or passes a record to ProcessRecord before it has
\* read ShardProcessed[parent] as true; an absent parent entry reads false,
\* so a child that starts before its parent registered itself waits too.
C1_ParentGate ==
  \A w \in Workers :
    LET me == workers[w] IN
    (me.pc # "idle" /\ me.parent # Nil) =>
      /\ me.pc # "gate" => ShardProcessed[me.parent] = "true"
      /\ ShardProcessed[me.parent] # "true" =>
           /\ me.pc = "gate"
           /\ me.fetched = <<>> /\ me.applied = <<>>
           /\ ShardProcessed[me.shard] = "absent"

\* C1 witness: a child worker has passed the gate of a listed parent and
\* applied a record.
C1_Witness ==
  \E w \in Workers :
    /\ workers[w].parent \in ShardIds
    /\ workers[w].applied # <<>>
    /\ ShardProcessed[workers[w].parent] = "true"

\* C2 as claimed: when a child worker has applied a record, the worker of
\* its parent shard has applied every record of the parent shard, however
\* the parent worker left its loop.
C2_ParentFullyApplied ==
  \A w \in Workers :
    (workers[w].parent \in ShardIds /\ workers[w].applied # <<>>) =>
      \A v \in WorkersOf(workers[w].parent) :
        SeqsOf(workers[v].applied) = AllRecords

\* C2 as amended: when a child worker has applied a record, the worker of
\* its parent shard has left its loop and set the parent's flag, so it
\* applies no further record; it has applied every record of the parent
\* shard if it left the loop on a nil NextShardIterator.
C2_ParentLoopLeft ==
  \A w \in Workers :
    (workers[w].parent \in ShardIds /\ workers[w].applied # <<>>) =>
      /\ WorkersOf(workers[w].parent) # {}
      /\ \A v \in WorkersOf(workers[w].parent) :
           /\ workers[v].pc = "done"
           /\ workers[v].records = <<>>
           /\ workers[v].exit = "closed" => SeqsOf(workers[v].applied) = AllRecords

\* C2 witness: a child has applied a record after its parent drained its
\* closed shard.
C2_Witness ==
  \E w \in Workers :
    /\ workers[w].parent \in ShardIds
    /\ workers[w].applied # <<>>
    /\ \E v \in WorkersOf(workers[w].parent) :
         /\ workers[v].exit = "closed"
         /\ SeqsOf(workers[v].applied) = AllRecords

\* C3: within one shard the records are passed to ProcessRecord, and their
\* mutations handed to the writer, in the order GetRecords returned them,
\* batch after batch; a record is applied (all retries of its write
\* included) before the next record of the shard is taken up.
C3_RecordOrder ==
  \A w \in Workers :
    LET me == workers[w] IN
    /\ SeqsOf(me.applied) \o me.records = me.fetched
    /\ [i \in 1..Len(me.writes) |-> me.writes[i].vals.record] = SeqsOf(Handed(me.applied))
    /\ \A i, j \in 1..Len(me.writes) :
         i < j => me.writes[i].vals.record < me.writes[j].vals.record
    /\ me.pc \in {"iter", "records", "exit", "done"} => me.records = <<>>

\* C3 witness: a batch of two records, the first handed to the writer and
\* the second still to be applied.
C3_Witness ==
  \E w \in Workers :
    /\ Len(workers[w].writes) = 1
    /\ Len(workers[w].applied) = 1
    /\ Len(workers[w].records) = 1
    /\ Len(workers[w].fetched) = 2

C6_ProcessedCountsAll ==
  dpc = "done" => recordsProcessed = SumKinds(Records)

\* C7 as claimed: once UserExit is set and every call has returned, the
\* discovery loop and every shard worker have terminated.
C7_ExitTerminates ==
  (UserExit /\ ~ENABLED Next) =>
    /\ dpc = "done"
    /\ \A w \in Workers : workers[w].pc \in {"idle", "done"}

\* C8: for a REMOVE record whose key image holds the one or two primary-key
\* columns, in whatever order the columns stand in the source schema, the
\* key of the Delete mutation is the values of the key columns in declared
\* primary-key order.
C8_KeyInDeclaredOrder ==
  (rmResult # NoMutation /\ rmImage = Range(rmPrimaryKeys)) =>
    rmResult = Delete([i \in 1..Len(rmPrimaryKeys) |-> ValueOf(rmPrimaryKeys[i])])

\* C8 witness: a two-column key whose range key stands before its hash key
\* in the column list, so that the two values were swapped.
C8_Witness ==
  /\ rmResult # NoMutation
  /\ Len(rmPrimaryKeys) = 2
  /\ rmImage = Range(rmPrimaryKeys)
  /\ \E i, j \in 1..Len(rmColNames) :
       i < j /\ rmColNames[i] = rmPrimaryKeys[2] /\ rmColNames[j] = rmPrimaryKeys[1]
  /\ rmResult.key = <<ValueOf(rmPrimaryKeys[1]), ValueOf(rmPrimaryKeys[2])>>

\* C9: after every tick the optimum flag is true whenever 100 times the sum
\* of the last five one-minute deltas is at most 5 times the sum of the
\* first five, or the last delta is zero; after the deltas
\* 1000,1000,1000,1000,1000 it is false and after five more deltas of 0 it
\* is true.
C9_OptimumFlag ==
  /\ (/\ deltas # <<>>
      /\ \/ SumSeq(LastN(deltas, 5)) * 100 <= 5 * SumSeq(FirstN(deltas, 5))
         \/ deltas[Len(deltas)] = 0)
       => optimumCondition
  /\ deltas = [i \in 1..5 |-> 1000] => ~optimumCondition
  /\ deltas = [i \in 1..10 |-> IF i <= 5 THEN 1000 ELSE 0] => optimumCondition

\* C9 witness: minute 10 of the scenario.
C9_Witness ==
  /\ deltas = [i \in 1..10 |-> IF i <= 5 THEN 1000 ELSE 0]
  /\ timer = 10
  /\ optimumCondition

\* C10: a worker all of whose GetRecords calls failed with
\* TrimmedDataAccessException leaves its loop after 5 retries, that is 6
\* GetRecords calls, with one anomaly recorded and no record applied, and
\* marks its shard done.
C10_TrimCap ==
  \A w \in Workers :
    LET me == workers[w] IN
    /\ me.trimCalls <= trimRetryLimit + 1
    /\ (me.trimCalls >= 1 /\ me.pc \in {"iter", "records"}) =>
         me.retryCount = me.trimCalls
    /\ (me.trimCalls >= 1 /\ me.pc \in {"exit", "done"} /\ me.exit # "iterError") =>
         /\ me.exit = "trimCap"
         /\ me.trimCalls = trimRetryLimit + 1
         /\ me.retryCount = trimRetryLimit
         /\ Unexpecteds["fetchRecords"] = 1
         /\ Unexpecteds["getShardIterator"] = 0
         /\ me.applied = <<>>
         /\ me.pc = "done" => ShardProcessed[me.shard] = "true"

\* C10 witness: a worker has hit the retry cap and marked its shard done.
C10_Witness ==
  \E w \in Workers :
    /\ workers[w].pc = "done"
    /\ workers[w].exit = "trimCap"
    /\ workers[w].trimCalls = trimRetryLimit + 1
    /\ ShardProcessed[workers[w].shard] = "true"

\* C11: after a GetShardIterator call that failed with
\* TrimmedDataAccessException the worker has reset lastSeq to nil; the request
\* that then succeeds has type TRIM_HORIZON; the records fetched from there
\* are processed, so that no record is skipped that has not aged out; and the
\* trimmed result records no anomaly (only the other iterator errors do).
C11_TrimmedIteratorRecovered ==
  \A w \in Workers :
    LET me == workers[w] IN
    /\ (me.trimmedBefore /\ me.pc = "iter") => me.lastEvaluatedSequenceNumber = Nil
    /\ (me.trimmedBefore /\ me.pc \in {"records", "process"}) =>
         me.iterType = "TRIM_HORIZON"
    /\ \A q \in SeqNums :
         (/\ q \notin Range(me.fetched)
          /\ \E i \in 1..Len(me.fetched) : q < me.fetched[i])
           => q <= trimPoint[me.shard]
    /\ Unexpecteds["getShardIterator"] =
         Cardinality({v \in Workers : workers[v].exit = "iterError"})

\* C11 witness: record 1 was applied and aged out, the AFTER_SEQUENCE_NUMBER
\* request was trimmed, and the worker has applied the batch fetched from
\* the trim horizon without any anomaly.
C11_Witness ==
  \E w \in Workers :
    /\ workers[w].trimmedBefore
    /\ workers[w].pc = "process"
    /\ workers[w].iterType = "TRIM_HORIZON"
    /\ workers[w].records = <<>>
    /\ Len(workers[w].applied) = 2
    /\ \A a \in AnomalyKinds : Unexpecteds[a] = 0 \/ a = "colsAndSchemas" \/ a = "writer"

\* C12: when the writer fails k < 1000 times with the parent-row-missing
\* error and then succeeds, the mutation is applied once, the writer is
\* invoked k + 1 times and the record is not counted as dropped (nor as bad).
C12_RetryThenSuccess ==
  /\ wrApplied <= 1
  /\ (wpc = "done" /\ writerSet /\ wrFails < retryLimit /\ wrFinal = NilErr) =>
       /\ wrApplied = 1
       /\ wrCalls = wrFails + 1
       /\ wrErr = NilErr
       /\ SumKinds(DroppedRecords) = 0
       /\ SumKinds(BadRecords) = 0
       /\ recordsProcessed = 1

\* C12 witness: two parent-row-missing failures, then success.
C12_Witness ==
  /\ wpc = "done"
  /\ wrFails = 2 /\ wrFinal = NilErr
  /\ wrCalls = 3 /\ wrApplied = 1
  /\ SumKinds(DroppedRecords) = 0

C14_OtherErrorNoRetry ==
  /\ (wpc \in {"returned", "done"} /\ writerSet /\ wrFinal \in OtherWriteErrs
        /\ wrFails < retryLimit) =>
       /\ wrCalls = wrFails + 1
       /\ wrErr = wrFinal
       /\ wrApplied = 0
  /\ (wpc = "done" /\ writerSet /\ wrFinal \in OtherWriteErrs /\ wrFails = 0) =>
       /\ wrCalls = 1
       /\ DroppedRecords[wrEventName] = 1
       /\ SumKinds(DroppedRecords) = 1
       /\ SumKinds(BadRecords) = 0
       /\ recordsProcessed = 1

\* C14 witness: a first attempt that fails with a NotFound error that is
\* not about a parent row.
C14_Witness ==
  /\ wpc = "done"
  /\ wrFails = 0 /\ wrFinal = {"NotFound"}
  /\ wrCalls = 1
  /\ DroppedRecords[wrEventName] = 1
  /\ SumKinds(BadRecords) = 0

\* C15: UserExit is a latch: it starts false, no step of the discovery loop,
\* of a shard worker, of record processing or of the cutover advisor makes
\* it false again, and the only step that changes it is the signal handler's.
C15_UserExitLatch ==
  /\ ~UserExit
  /\ [][/\ UserExit => UserExit'
        /\ UserExit' # UserExit => catchCtrlC]_vars

\* C15 witness: the flag is set and the advisor, discovery and a worker
\* have taken steps after it.
C15_Witness ==
  /\ UserExit
  /\ cpc = "done"
  /\ dpc = "done"
  /\ \E w \in Workers : workers[w].pc = "done" /\ workers[w].exit = "drain"

\* C16: NewDynamoDBStream returns an error and no arn, without calling
\* UpdateTable, for a stream of view type KEYS_ONLY or OLD_IMAGE; returns the
\* arn of the existing stream, without calling UpdateTable, for NEW_IMAGE or
\* NEW_AND_OLD_IMAGES; and for a table without a stream calls UpdateTable
\* once with NEW_AND_OLD_IMAGES and returns the new arn; a failing
\* DescribeTable or UpdateTable yields an error and no arn.
C16_NewDynamoDBStream ==
  /\ updateCalls <= 1
  /\ updateCalls = 1 => updateViewType = "NEW_AND_OLD_IMAGES"
  /\ nspc = "done" =>
       /\ describeErr =>
            nsResult = [arn |-> NoArn, err |-> "DescribeTable"] /\ updateCalls = 0
       /\ (~describeErr /\ streamViewType \in {"KEYS_ONLY", "OLD_IMAGE"}) =>
            nsResult.err # "none" /\ nsResult.arn = NoArn /\ updateCalls = 0
       /\ (~describeErr /\ streamViewType \in {"NEW_IMAGE", "NEW_AND_OLD_IMAGES"}) =>
            nsResult = [arn |-> latestStreamArn, err |-> "none"] /\ updateCalls = 0
       /\ (~describeErr /\ streamViewType = "none") =>
            /\ updateCalls = 1
            /\ updateErr => nsResult = [arn |-> NoArn, err |-> "UpdateTable"]
            /\ ~updateErr => nsResult = [arn |-> newStreamArn, err |-> "none"]

\* C16 witness: a table with an OLD_IMAGE stream has been refused.
C16_Witness ==
  /\ nspc = "done"
  /\ ~describeErr
  /\ streamViewType = "OLD_IMAGE"
  /\ nsResult.err = "OLD_IMAGE"
  /\ updateCalls = 0

\* C17: every mutation handed to the writer has the kind of its record's event
\* name and the values of the image chosen for it: an INSERT record gives an
\* Insert and a MODIFY record an InsertOrUpdate, both from NewImage; a REMOVE
\* record gives a Delete from Keys; nothing else gives a Delete.
C17_MutationOfEventName ==
  \A w \in Workers :
    LET me == workers[w] IN
    \A i \in 1..Len(me.writes) :
      LET m == me.writes[i]
          eventName == eventNames[me.shard][m.vals.record]
      IN
      /\ eventName = "INSERT" => m.op = "Insert" /\ m.vals.image = "NewImage"
      /\ eventName = "MODIFY" => m.op = "InsertOrUpdate" /\ m.vals.image = "NewImage"
      /\ eventName = "REMOVE" => m.op = "Delete" /\ m.vals.image = "Keys"
      /\ m.op = "Delete" => eventName = "REMOVE"

\* A worker has handed one MODIFY and one REMOVE record to the writer.
C17_Witness ==
  \E w \in Workers :
    LET me == workers[w] IN
    /\ \E i \in 1..Len(me.writes) :
         eventNames[me.shard][me.writes[i].vals.record] = "MODIFY"
    /\ \E i \in 1..Len(me.writes) :
         eventNames[me.shard][me.writes[i].vals.record] = "REMOVE"

\* C18: once a record has been applied, replaying it leaves the table as the
\* first application left it; every replay of an INSERT is counted as dropped,
\* and no replay of a MODIFY or of a REMOVE is.
C18_ReplaySameRows ==
  rpApplied >= 1 =>
    LET eventName == rpRecord.eventName IN
    /\ spRows = rpOnce.rows
    /\ recordsProcessed = rpApplied
    /\ eventName = "INSERT" =>
         DroppedRecords[eventName] = rpOnce.dropped + (rpApplied - 1)
    /\ eventName # "INSERT" => DroppedRecords[eventName] = rpOnce.dropped
    /\ eventName = "MODIFY" => spRows[rpRecord.key] = rpRecord.val
    /\ eventName = "REMOVE" => spRows[rpRecord.key] = Absent

\* An INSERT that created its row has been replayed once and dropped.
C18_Witness ==
  /\ rpApplied = 2
  /\ rpRecord.eventName = "INSERT"
  /\ rpOnce.dropped = 0
  /\ DroppedRecords["INSERT"] = 1
  /\ spRows[rpRecord.key] = rpRecord.val

\* The worker's shard held only INSERT records and it got them all in one
\* batch, which no record of it failed to convert.
SingleInsertBatch(me) ==
  /\ me.shard # Nil
  /\ \A q \in SeqNums : eventNames[me.shard][q] = "INSERT"
  /\ me.batches = 1
  /\ me.fetched = [i \in 1..MaxRecs |-> i]
  /\ \A i \in 1..Len(me.applied) : me.applied[i].outcome \in {"written", "dropped"}

LeftClosed(me) == me.pc = "done" /\ me.exit = "closed"

C20_AtMostFiveRecoveries ==
  \A w \in Workers : workers[w].recoveries <= trimRetryLimit

\* C20, amended: of the consecutive recoveries only those after a trimmed
\* GetRecords result are counted, at most 5 of them; at most one recovery
\* after a trimmed GetShardIterator result comes on top; a worker that leaves
\* on trimmed data has used all 5.
C20_RecordsRecoveriesCapped ==
  \A w \in Workers :
    LET me == workers[w] IN
    /\ me.retryCount <= trimRetryLimit
    /\ me.retryCount <= me.recoveries
    /\ me.recoveries <= me.retryCount + 1
    /\ me.exit = "trimCap" => me.retryCount = trimRetryLimit

\* A worker has left after one recovery of a trimmed GetShardIterator result
\* and five of trimmed GetRecords results in a row.
C20_Witness ==
  \E w \in Workers :
    /\ workers[w].exit = "trimCap"
    /\ workers[w].recoveries = trimRetryLimit + 1

\* The ways out of the loop of ProcessShard.
ExitReasons == {"closed", "drain", "iterError", "recordsError", "trimCap"}

\* C21: a worker that has left its loop has left it for one of the five
\* reasons, and whatever the reason, once it has signalled its wait group the
\* entry of its shard is true.
C21_ExitMarksDone ==
  \A w \in Workers :
    LET me == workers[w] IN
    /\ me.pc \in {"exit", "done"} <=> me.exit \in ExitReasons
    /\ me.pc = "done" => ShardProcessed[me.shard] = "true"

\* A worker has returned after a GetRecords error that is not a trimmed one.
C21_Witness ==
  \E w \in Workers :
    /\ workers[w].pc = "done"
    /\ workers[w].exit = "recordsError"
    /\ ShardProcessed[workers[w].shard] = "true"

\* C22: once ProcessStream has returned, whether its loop broke on a
\* DescribeStream error or after the drain pass, every worker it spawned has
\* returned and the entry of every dispatched shard is true.
C22_ReturnsAfterWorkers ==
  dpc = "done" =>
    /\ \A w \in Workers :
         /\ w <= nSpawned => workers[w].pc = "done"
         /\ w > nSpawned => workers[w].pc = "idle"
    /\ \A s \in ShardIds : spawned[s] > 0 => ShardProcessed[s] = "true"

\* ProcessStream has returned after a DescribeStream error that followed the
\* dispatch of every shard.
C22_Witness ==
  /\ dpc = "done"
  /\ Unexpecteds["fetchShards"] = 1
  /\ \A s \in ShardIds : spawned[s] > 0 /\ ShardProcessed[s] = "true"

\* C23: a DescribeStream error is recorded as one anomaly and ends the
\* discovery loop: the step that records it leaves every worker as it is, and
\* from then on no shard is listed, no worker is spawned and no second
\* anomaly of the kind is recorded, while the workers go on by themselves.
C23_DescribeErrorBreaks ==
  /\ [](/\ Unexpecteds["fetchShards"] <= 1
        /\ Unexpecteds["fetchShards"] = 1 => dpc \in {"wait", "done"})
  /\ [][/\ Unexpecteds'["fetchShards"] # Unexpecteds["fetchShards"] =>
             workers' = workers
        /\ Unexpecteds["fetchShards"] = 1 =>
             /\ UNCHANGED <<lastProcessedShardId, passAfterUserExit, nSpawned,
                            returned, spawned, drainPasses>>
             /\ Unexpecteds'["fetchShards"] = 1
             /\ \A w \in Workers : workers'[w].shard = workers[w].shard]_vars

\* After the error a worker spawned earlier has applied its whole shard and
\* left because the shard was drained, while another is still at work.
C23_Witness ==
  /\ Unexpecteds["fetchShards"] = 1
  /\ dpc = "wait"
  /\ \E w \in Workers :
       /\ workers[w].pc = "done"
       /\ workers[w].exit = "closed"
       /\ Len(workers[w].applied) = MaxRecs
  /\ \E w \in Workers : workers[w].pc \in {"iter", "records", "process"}

\* The records the workers have taken up: <<worker, position in applied>>.
TakenUp ==
  UNION {{<<w, i>> : i \in 1..Len(workers[w].applied)} : w \in Workers}

\* How many records of kind k were taken up with one of the outcomes.
OutcomeCount(k, outcomes) ==
  Cardinality({p \in TakenUp :
                 LET me == workers[p[1]] IN
                 /\ eventNames[me.shard][me.applied[p[2]].seq] = k
                 /\ me.applied[p[2]].outcome \in outcomes})

AllOutcomes == {"schemaError", "bad", "noWriter", "dropped", "written"}

\* C24: with the write callback unset no mutation is handed to a writer and
\* no record is dropped; every record that converted is counted as bad, once,
\* under its kind, with one anomaly, and is counted as processed; the worker
\* goes on to the next record.
C24_UnsetWriter ==
  ~writerSet =>
    /\ \A w \in Workers : workers[w].writes = <<>>
    /\ SumKinds(DroppedRecords) = 0
    /\ \A k \in EventKinds : BadRecords[k] = OutcomeCount(k, {"bad", "noWriter"})
    /\ Unexpecteds["writer"] =
         SumKinds([k \in EventKinds |-> OutcomeCount(k, {"noWriter"})])
    /\ recordsProcessed =
         SumKinds([k \in EventKinds |->
                     OutcomeCount(k, AllOutcomes \ {"schemaError"})])

\* A worker has taken up every record of its shard with the writer unset.
C24_Witness ==
  /\ ~writerSet
  /\ \E w \in Workers :
       /\ Len(workers[w].applied) = MaxRecs
       /\ \A i \in 1..MaxRecs : workers[w].applied[i].outcome = "noWriter"
  /\ Unexpecteds["writer"] = MaxRecs
  /\ SumKinds(BadRecords) = MaxRecs
  /\ recordsProcessed = MaxRecs

\* C25: a record whose conversion reported bad columns is counted as bad and
\* handed to the sample, once, in the step that takes it up, and to no
\* writer; a record that converted is handed to the writer, when there is
\* one, and is neither counted as bad nor sampled.
C25_BadColumns ==
  /\ [](/\ \A p \in TakenUp :
             LET entry == workers[p[1]].applied[p[2]] IN
             /\ entry.badCols => entry.outcome = "bad"
             /\ entry.outcome = "bad" => entry.badCols
             /\ (schemaOk /\ writerSet /\ ~entry.badCols) =>
                  entry.outcome \in {"dropped", "written"}
        /\ \A w \in Workers :
             Len(workers[w].writes) =
               Cardinality({i \in 1..Len(workers[w].applied) :
                              workers[w].applied[i].outcome \in {"dropped", "written"}})
        /\ SampleBadRecords =
             SumKinds([k \in EventKinds |-> OutcomeCount(k, {"bad"})])
        /\ writerSet =>
             \A k \in EventKinds : BadRecords[k] = OutcomeCount(k, {"bad"}))
  /\ [][/\ SampleBadRecords' # SampleBadRecords =>
             /\ SampleBadRecords' = SampleBadRecords + 1
             /\ SumKinds(BadRecords') = SumKinds(BadRecords) + 1
             /\ DroppedRecords' = DroppedRecords
             /\ recordsProcessed' = recordsProcessed + 1
             /\ \A w \in Workers :
                  /\ workers'[w].writes = workers[w].writes
                  /\ Len(workers'[w].records) <= Len(workers[w].records)
        /\ (\E w \in Workers : workers'[w].writes # workers[w].writes) =>
             BadRecords' = BadRecords /\ SampleBadRecords' = SampleBadRecords]_vars

\* A worker has taken up a record with bad columns and then one without,
\* which was written.
C25_Witness ==
  \E w \in Workers :
    LET me == workers[w] IN
    /\ Len(me.applied) = 2
    /\ me.applied[1].badCols /\ me.applied[1].outcome = "bad"
    /\ ~me.applied[2].badCols /\ me.applied[2].outcome = "written"
    /\ me.applied[1].seq # me.applied[2].seq
    /\ Len(me.writes) = 1
    /\ SampleBadRecords = 1
    /\ SumKinds(BadRecords) = 1
    /\ SumKinds(DroppedRecords) = 0

\* C26: a record for which the schemas do not resolve is the last one its
\* worker takes up: the worker leaves its record loop with it.
C26_SchemaErrorEndsShard ==
  \A w \in Workers :
    LET me == workers[w] IN
    \A i \in 1..Len(me.applied) :
      me.applied[i].outcome = "schemaError" => i = Len(me.applied)

\* C27: the records a worker has fetched are those it has handed to
\* ProcessRecord followed by those of the batch it is working on, and a worker
\* that has left its loop has handed every fetched record to ProcessRecord.
C27_FetchedAreTakenUp ==
  \A w \in Workers :
    LET me == workers[w] IN
    /\ SeqsOf(me.applied) \o me.records = me.fetched
    /\ me.pc \in {"exit", "done"} =>
         me.records = <<>> /\ SeqsOf(me.applied) = me.fetched

\* A worker saw UserExit after its first batch, fetched once more, took up
\* the record that fetch returned and left.
C27_Witness ==
  \E w \in Workers :
    LET me == workers[w] IN
    /\ me.pc = "done"
    /\ me.exit = "drain"
    /\ me.batches = 2
    /\ me.drainFetches = 1
    /\ Len(me.fetched) = 2
    /\ SeqsOf(me.applied) = me.fetched

\* C28: while UserExit is false the discovery loop goes on unless
\* DescribeStream fails; the pass on which it sees UserExit is not its last;
\* when it has broken without an error it had seen UserExit, made at least
\* one pass since, broke on a pass whose LastEvaluatedShardId was nil, and
\* spawned a worker for every shard listed, those of the last pass included.
C28_DrainPass ==
  /\ [](/\ dpc \in {"wait", "done"} =>
             \/ Unexpecteds["fetchShards"] = 1
             \/ /\ UserExit
                /\ passAfterUserExit
                /\ drainPasses >= 1
                /\ breakPass.tip
                /\ breakPass.spawned = breakPass.shards
        /\ \A s \in ShardIds : spawned[s] = returned[s])
  /\ [][/\ (dpc = "loop" /\ ~UserExit) =>
             (dpc' = "loop" \/ Unexpecteds'["fetchShards"] = 1)
        /\ (passAfterUserExit' /\ ~passAfterUserExit) =>
             (UserExit /\ dpc' = "loop")]_vars

\* The loop has broken, without an error, on a pass that listed a shard.
C28_Witness ==
  /\ dpc \in {"wait", "done"}
  /\ Unexpecteds["fetchShards"] = 0
  /\ drainPasses >= 1
  /\ breakPass.tip
  /\ breakPass.shards >= 1
  /\ breakPass.spawned = breakPass.shards

\* C29: after every tick lastFiveMin is the sum of the five ring slots and
\* the sum of the deltas of the last five minutes, or of all of them when
\* there are fewer; tillLastMin is the sum of all deltas and, at the tick, the
\* RecordsProcessed total it read; the slot tick t writes is slot t mod 5,
\* the ticks counted from 0, and the other slots are left as they are.
C29_RingOfDeltas ==
  /\ [](/\ Len(deltas) = timer
        /\ lastFiveMin = arr[0] + arr[1] + arr[2] + arr[3] + arr[4]
        /\ lastFiveMin = SumSeq(LastN(deltas, 5))
        /\ tillLastMin = SumSeq(deltas)
        /\ \A t \in 0..(timer - 1) : t + 5 >= timer => arr[t % 5] = deltas[t + 1]
        /\ \A i \in 0..4 : i >= timer => arr[i] = 0)
  /\ [][timer' # timer =>
          /\ timer' = timer + 1
          /\ tillLastMin' = recordsProcessed
          /\ arr'[timer % 5] = recordsProcessed - tillLastMin
          /\ \A i \in 0..4 : i # timer % 5 => arr'[i] = arr[i]]_vars

\* Seven ticks: the ring has wrapped and slot 1 holds the delta of the
\* seventh minute, which differs from the one it replaced.
C29_Witness ==
  /\ timer = 7
  /\ arr[1] = deltas[7]
  /\ deltas[7] # deltas[2]
  /\ lastFiveMin = deltas[3] + deltas[4] + deltas[5] + deltas[6] + deltas[7]
  /\ lastFiveMin # tillLastMin

\* C30: firstFiveMin is the sum of the deltas of the first five minutes, or
\* of all of them when there are fewer, and no tick from the sixth on
\* changes it.
C30_Baseline ==
  /\ [](firstFiveMin = SumSeq(FirstN(deltas, 5)))
  /\ [][timer >= 5 => firstFiveMin' = firstFiveMin]_vars

\* The sixth tick has read a delta that is not zero and left the baseline
\* as the first five made it.
C30_Witness ==
  /\ timer = 6
  /\ deltas[6] > 0
  /\ firstFiveMin > 0
  /\ firstFiveMin = deltas[1] + deltas[2] + deltas[3] + deltas[4] + deltas[5]

LastApplied(me) ==
  IF me.applied = <<>> THEN Nil ELSE me.applied[Len(me.applied)].seq

\* C32: an iterator request made with lastSeq unset is of type TRIM_HORIZON,
\* and lastSeq is unset only before the first record or after a trimmed-data
\* reset; any other request is of type AFTER_SEQUENCE_NUMBER with the
\* sequence number of the last record passed to ProcessRecord and reads from
\* the record right after it.
C32_IteratorType ==
  /\ [](\A w \in Workers :
          LET me == workers[w] IN
          me.pc \in {"iter", "records", "process"} =>
            /\ me.lastEvaluatedSequenceNumber # Nil =>
                 me.lastEvaluatedSequenceNumber = LastApplied(me)
            /\ (me.lastEvaluatedSequenceNumber = Nil /\ me.applied # <<>>) =>
                 LastApplied(me) <= trimPoint[me.shard])
  /\ [][\A w \in Workers :
          LET me == workers[w] IN
          (me.pc = "iter" /\ workers'[w].pc = "records") =>
            IF me.lastEvaluatedSequenceNumber = Nil
            THEN workers'[w].iterType = "TRIM_HORIZON"
            ELSE /\ workers'[w].iterType = "AFTER_SEQUENCE_NUMBER"
                 /\ workers'[w].shardIterator = LastApplied(me) + 1]_vars

\* C32 witness: a worker holds an AFTER_SEQUENCE_NUMBER iterator after a
\* batch of two records, having started over from TRIM_HORIZON before.
C32_Witness ==
  \E w \in Workers :
    LET me == workers[w] IN
    /\ me.pc = "records"
    /\ me.iterType = "AFTER_SEQUENCE_NUMBER"
    /\ Len(me.applied) >= 2
    /\ trimPoint[me.shard] >= 1

\* C33: the step that takes a record up sets lastSeq to its sequence number
\* whatever the outcome, and every AFTER_SEQUENCE_NUMBER iterator a worker
\* obtains reads past all records it has taken up, so none of them, written
\* or not, is fetched or taken up again through such a request.
C33_AdvancedWhateverTheOutcome ==
  /\ [][\A w \in Workers :
          LET me == workers[w] IN
          /\ workers'[w].applied # me.applied =>
               /\ Len(workers'[w].applied) = Len(me.applied) + 1
               /\ workers'[w].lastEvaluatedSequenceNumber = LastApplied(workers'[w])
               /\ LastApplied(workers'[w]) = Head(me.records)
          /\ (me.pc = "iter" /\ workers'[w].pc = "records"
                /\ workers'[w].iterType = "AFTER_SEQUENCE_NUMBER") =>
               \A i \in 1..Len(me.applied) :
                 me.applied[i].seq < workers'[w].shardIterator]_vars
  /\ [](\A w \in Workers :
          LET me == workers[w] IN
          \A i \in 1..Len(me.applied) :
            me.applied[i].outcome # "written" =>
              /\ \A j \in 1..Len(me.applied) : me.applied[j].seq = me.applied[i].seq => j = i
              /\ Count(me.fetched, me.applied[i].seq) = 1)

\* C33 witness: a worker took up a record whose write failed and, in a later
\* batch fetched through an AFTER_SEQUENCE_NUMBER iterator, the record after it.
C33_Witness ==
  \E w \in Workers :
    LET me == workers[w] IN
    /\ Len(me.applied) = 2
    /\ me.applied[1].outcome = "dropped"
    /\ me.applied[2].seq = me.applied[1].seq + 1
    /\ me.batches = 2
    /\ trimPoint[me.shard] = 0

\* C34 as claimed: once UserExit is set and no goroutine can take a further
\* step, no spawned worker is left at the parent gate, whatever shard its
\* ParentShardId names, and discovery is not left waiting on its wait group.
C34_GateReleasedOnExit ==
  (UserExit /\ ~ENABLED Next) =>
    /\ \A w \in Workers : workers[w].pc # "gate"
    /\ dpc # "wait"

C36_BadPlusDropped ==
  /\ [](/\ \A k \in EventKinds : BadRecords[k] + DroppedRecords[k] <= Records[k]
        /\ \A g \in Workers : prBad[g] + prDropped[g] <= 1)
  /\ [][/\ BadRecords' # BadRecords => DroppedRecords' = DroppedRecords
        /\ SumKinds(BadRecords') + SumKinds(DroppedRecords') <=
             SumKinds(BadRecords) + SumKinds(DroppedRecords) + 1]_vars

\* C36 witness: one worker has counted its record as bad and the other its
\* record of the same kind as dropped, neither having returned yet.
C36_Witness ==
  \E g, h \in Workers :
    /\ prpc[g] = "processed" /\ prBad[g] = 1
    /\ prpc[h] = "processed" /\ prDropped[h] = 1
    /\ prKind[g] = prKind[h]
    /\ BadRecords[prKind[g]] + DroppedRecords[prKind[g]] = Records[prKind[g]]

\* C37: a worker passes each record of its shard to ProcessRecord at most
\* once, in rising sequence-number order, also when a trimmed GetRecords or
\* GetShardIterator result made it start over from TRIM_HORIZON after
\* earlier batches.
C37_AtMostOnce ==
  \A w \in Workers :
    LET me == workers[w] IN
    /\ \A i, j \in 1..Len(me.applied) :
         i < j => me.applied[i].seq < me.applied[j].seq
    /\ \A i, j \in 1..Len(me.fetched) : i < j => me.fetched[i] < me.fetched[j]

\* C37 witness: a worker took up record 1, met a trimmed result, started over
\* from TRIM_HORIZON and is taking up the batch read through that iterator.
C37_Witness ==
  \E w \in Workers :
    LET me == workers[w] IN
    /\ me.pc = "process"
    /\ me.iterType = "TRIM_HORIZON"
    /\ me.batches = 2
    /\ SeqsOf(me.applied) = <<1, 2>>

====
